---- MODULE Spec2Model ----
(***************************************************************************)
(* A model of umamusume-web-crawler: the transclusion expansion of         *)
(* web/moegirl.py, the MCP tools of mcp/server.py, the command line        *)
(* selector of cli.py and the crawl / capture orchestration of             *)
(* web/crawler.py.  Each part is a state machine over its own variables;   *)
(* each has its own specification (SpecExpand, SpecMcp, SpecCli,           *)
(* SpecCrawl, SpecCapture) that leaves the other parts' variables alone.   *)
(* The markup parser of web/parse_wiki_infobox.py (SpecParse) and the      *)
(* HTML extractor _extract_mediawiki_structured (SpecStructured) are pure  *)
(* functions applied to inputs drawn from bounded sets.                    *)
(***************************************************************************)
EXTENDS Integers, Sequences, FiniteSets, TLC

VARIABLES
    \* ---- fetch_moegirl_wikitext_expanded (web/moegirl.py) ----
    e_pc,          \* position of the expansion
    e_wiki,        \* the titles of the pages the wiki has
    e_maxPages,    \* max_pages argument
    e_maxDepth,    \* max_depth argument
    e_visited,     \* the closure's visited set
    e_stack,       \* suspended _fetch frames (innermost last)
    e_cur,         \* the _fetch call being evaluated: [title, depth]
    e_ret,         \* text a _fetch call returns to its caller
    e_result,      \* what the caller of the expansion gets
    e_fetches,     \* title -> number of fetch_moegirl_wikitext calls made for it
    e_links,       \* title -> transclusions found in its fetched text
    e_level,       \* title -> recursion level (0 = root) at which it was fetched
    \* ---- the MCP tools (mcp/server.py) ----
    m_pc,          \* position of the tool call
    m_tool,        \* the tool called
    m_items,       \* what the collaborator returned (search: the list of items)
    m_built,       \* the result list built so far inside the try block
    m_reply,       \* the descriptor returned to the MCP client
    m_raised,      \* the exception that escaped the tool, "none" if none did
    \* ---- the command line selector (cli.py _run) ----
    c_pc,          \* position of _run
    c_args,        \* the parsed arguments that steer _run
    c_env,         \* what the target would answer to each acquisition mode
    c_calls,       \* the acquisition functions _run has called, in order
    c_out,         \* how _run ended and what it wrote
    \* ---- _crawl_with_config behind the text crawls (web/crawler.py) ----
    k_pc,          \* position of the crawl
    k_entry,       \* the public entry point called
    k_cfg,         \* request facts: timeout set, config attribute present, host
    k_content,     \* the local `content`: "none", "text" or "markup"
    k_html,        \* the local `html_snapshot`: "none", "shell", "thin", "ready"
    k_attempts,    \* the navigations issued, in order
    k_out,         \* how the call ended and what it returned
    \* ---- the visual-markitdown requests (web/crawler.py) ----
    v_pc,          \* position of the request
    v_req,         \* the arguments of the call and the configuration it reads
    v_ws,          \* the working directory: kind, exists, owned by a temp_workspace
    v_files,       \* the artifact files <slug>.png / <slug>.pdf in that directory
    v_capture,     \* which _capture_and_convert call runs, and its headless flag
    v_pass,        \* the run_capture pass being made
    v_attempt,     \* `attempt` of the retry loop of run_capture
    v_saved,       \* the locals png_saved / pdf_saved of _crawl_page_visual
    v_passLog,     \* navigations and backoffs of the current pass, and how it ended
    v_hist,        \* counters over the request: headful retries, steps after timeout
    v_timedOut,    \* the overall timeout of _run_with_timeout has fired
    v_out,         \* how the call ended and what it returned
    \* ---- the markup parser (web/parse_wiki_infobox.py) ----
    p_pc,          \* "input", "extracted", "parsed"
    p_text,        \* the wikitext, a sequence of symbols
    p_block,       \* what _extract_infobox_block(wikitext) returned
    p_page,        \* what parse_wiki_page(wikitext) returned
    \* ---- the HTML extractor _extract_mediawiki_structured (web/crawler.py) ----
    s_pc,          \* "input", "extracted"
    s_url,         \* the source_url argument
    s_elements,    \* the blocks _collect_blocks finds under the root, in order
    s_sections,     \* the `sections` of the returned document
    \* ---- the shared config, google_search and the CLI main (config.py, web/search.py, cli.py) ----
    g_pc,          \* position of the call
    g_call,        \* the function called and its arguments
    g_cfg,         \* the attributes of the shared config object
    g_cfg0,        \* the attributes of config when the call started
    g_trace,       \* what the call has done so far, in order
    g_out,          \* how the call ended
    \* ---- two visual-markitdown requests and the files they touch (web/crawler.py) ----
    q_pc,          \* position of each request
    q_req,         \* each request: its url and its output_dir argument
    q_dir,         \* the directory _resolve_output_dir gave each request
    q_fs,          \* the files that exist: path -> the request that wrote it last
    q_touch,       \* every file access so far: request, operation, path
    q_text,         \* the request whose artifact each returned text was converted from
    \* ---- the attempt loop of run_capture and its timeouts (web/crawler.py) ----
    t_pc,          \* "attempt", "done"
    t_timeout,     \* timeout_s, the overall timeout in seconds (0: none)
    t_antiBot,     \* the anti_bot argument
    t_attempt,     \* the loop variable attempt
    t_used,         \* the attempt_timeout of every attempt made, in order
    \* ---- repeated calls of parse_wiki_page (web/parse_wiki_infobox.py) ----
    r_pc,          \* "first", "between", "done"
    r_text,        \* the wikitext parsed twice
    r_first,       \* the document of the first parse of r_text
    r_again,       \* the document of the second parse of r_text
    r_others,      \* the number of other parses made in between
    r_left,         \* the field dict the latest call of _parse_infobox_fields built
    \* ---- the site post-filter (_post_process_content) ----
    j_pc,          \* "off", "input", "once" or "twice"
    j_url,         \* the url of the page
    j_text,        \* the content handed to _post_process_content
    j_once,        \* the content after one application
    j_twice,        \* the content after a second application
    \* ---- workspaces (UmamusumeCrawler, _resolve_output_dir) ----
    w_pc,          \* "off", "start", "constructed", "resolved", "returned", "raised" or "cleaned"
    w_req,         \* the directory arguments of the crawl operation
    w_fs,          \* the directories that exist
    w_caller,      \* the caller's UmamusumeCrawler, if any
    w_temp         \* the UmamusumeCrawler _resolve_output_dir created, if any

expVars == <<e_pc, e_wiki, e_maxPages, e_maxDepth, e_visited, e_stack, e_cur, e_ret,
             e_result, e_fetches, e_links, e_level>>

mcpVars == <<m_pc, m_tool, m_items, m_built, m_reply, m_raised>>

cliVars == <<c_pc, c_args, c_env, c_calls, c_out>>

crawlVars == <<k_pc, k_entry, k_cfg, k_content, k_html, k_attempts, k_out>>

capVars == <<v_pc, v_req, v_ws, v_files, v_capture, v_pass, v_attempt, v_saved,
             v_passLog, v_hist, v_timedOut, v_out>>

parseVars == <<p_pc, p_text, p_block, p_page>>

strVars == <<s_pc, s_url, s_elements, s_sections>>

cfgVars == <<g_pc, g_call, g_cfg, g_cfg0, g_trace, g_out>>

artVars == <<q_pc, q_req, q_dir, q_fs, q_touch, q_text>>

tmoVars == <<t_pc, t_timeout, t_antiBot, t_attempt, t_used>>

reparseVars == <<r_pc, r_text, r_first, r_again, r_others, r_left>>

postVars == <<j_pc, j_url, j_text, j_once, j_twice>>

wsVars == <<w_pc, w_req, w_fs, w_caller, w_temp>>

vars == <<expVars, mcpVars, cliVars, crawlVars, capVars, parseVars, strVars, cfgVars, artVars, tmoVars, reparseVars, postVars, wsVars>>

nonExpVars == <<mcpVars, cliVars, crawlVars, capVars, parseVars, strVars, cfgVars, artVars, tmoVars, reparseVars, postVars, wsVars>>
nonMcpVars == <<expVars, cliVars, crawlVars, capVars, parseVars, strVars, cfgVars, artVars, tmoVars, reparseVars, postVars, wsVars>>
nonCliVars == <<expVars, mcpVars, crawlVars, capVars, parseVars, strVars, cfgVars, artVars, tmoVars, reparseVars, postVars, wsVars>>
nonCrawlVars == <<expVars, mcpVars, cliVars, capVars, parseVars, strVars, cfgVars, artVars, tmoVars, reparseVars, postVars, wsVars>>
nonCapVars == <<expVars, mcpVars, cliVars, crawlVars, parseVars, strVars, cfgVars, artVars, tmoVars, reparseVars, postVars, wsVars>>
nonParseVars == <<expVars, mcpVars, cliVars, crawlVars, capVars, strVars, cfgVars, artVars, tmoVars, reparseVars, postVars, wsVars>>
nonStrVars == <<expVars, mcpVars, cliVars, crawlVars, capVars, parseVars, cfgVars, artVars, tmoVars, reparseVars, postVars, wsVars>>
nonCfgVars == <<expVars, mcpVars, cliVars, crawlVars, capVars, parseVars, strVars, artVars, tmoVars, reparseVars, postVars, wsVars>>
nonArtVars == <<expVars, mcpVars, cliVars, crawlVars, capVars, parseVars, strVars, cfgVars, tmoVars, reparseVars, postVars, wsVars>>
nonTmoVars == <<expVars, mcpVars, cliVars, crawlVars, capVars, parseVars, strVars, cfgVars, artVars, reparseVars, postVars, wsVars>>
nonReparseVars == <<expVars, mcpVars, cliVars, crawlVars, capVars, parseVars, strVars, cfgVars, artVars, tmoVars, postVars, wsVars>>
nonPostVars == <<expVars, mcpVars, cliVars, crawlVars, capVars, parseVars, strVars, cfgVars, artVars, tmoVars, reparseVars, wsVars>>
nonWsVars == <<expVars, mcpVars, cliVars, crawlVars, capVars, parseVars, strVars, cfgVars, artVars, tmoVars, reparseVars, postVars>>

(***************************************************************************)
(* Bounds of the model.                                                    *)
(***************************************************************************)
MaxPagesBound == 3
MaxDepthBound == 2
MaxRefs == 2
MaxResults == 2
MaxTextLen == 5
MaxLines == 3
MaxPieces == 3
MaxContentLines == 4
MaxElements == 3

(***************************************************************************)
(*                     Exceptions and `except Exception`                   *)
(***************************************************************************)
\* Failures the collaborators raise: all derive from Exception.
ExceptionKinds == {"ValueError", "RuntimeError", "KeyError", "OSError"}

\* asyncio.CancelledError derives from BaseException, not from Exception.
Cancelled == "CancelledError"

\* `except Exception as exc:` catches everything but BaseException-only kinds.
ExceptClauseCatchesAll(exc) == TRUE
ExceptClauseCatches(exc) == exc # Cancelled

(***************************************************************************)
(*                        MCP tools (mcp/server.py)                        *)
(***************************************************************************)
SearchTools == {"web_search_google", "biligame_wiki_seaech",
                "moegirl_wiki_search", "crawl_google_page"}
CrawlTools == {"crawl_biligame_wiki", "crawl_moegirl_wiki"}

\* What a search collaborator returns: a list of items, each well formed or
\* one the tool's list comprehension fails on.
ItemLists == UNION {[1..n -> {"item", "malformed"}] : n \in 0..MaxResults}

NoReply == [none |-> TRUE]

McpInit ==
    /\ m_pc = "idle"
    /\ m_tool = "none"
    /\ m_items = <<>>
    /\ m_built = <<>>
    /\ m_reply = NoReply
    /\ m_raised = "none"

McpIdle ==
    /\ m_pc = "off"
    /\ m_tool = "none"
    /\ m_items = <<>>
    /\ m_built = <<>>
    /\ m_reply = NoReply
    /\ m_raised = "none"

\* The `except Exception as exc:` clause of a tool: the descriptor it returns.
McpErrorReplyKeepsPartial(tool, exc, built) ==
    IF tool \in SearchTools
    THEN [results |-> built, error |-> exc]
    ELSE [status |-> "error", message |-> exc]
McpErrorReply(tool, exc, built) ==
    IF tool \in SearchTools
    THEN [results |-> <<>>, error |-> exc]
    ELSE [status |-> "error", message |-> exc]

\* An exception raised inside the try block of a tool.
McpRaise(exc) ==
    IF ExceptClauseCatches(exc)
    THEN /\ m_reply' = McpErrorReply(m_tool, exc, m_built)
         /\ m_pc' = "replied"
         /\ UNCHANGED m_raised
    ELSE /\ m_raised' = exc
         /\ m_pc' = "raised"
         /\ UNCHANGED m_reply

\* A client calls one of the tools.
McpInvoke ==
    /\ m_pc = "idle"
    /\ \E tool \in SearchTools \cup CrawlTools : m_tool' = tool
    /\ m_pc' = "collaborator"
    /\ UNCHANGED <<m_items, m_built, m_reply, m_raised>>
    /\ UNCHANGED nonMcpVars

\* The first statement of the try block: google_search_urls,
\* search_*_titles, google_search_page_urls or fetch_*_wikitext_expanded
\* returns or raises.
McpCollaborator ==
    /\ m_pc = "collaborator"
    /\ \/ \E exc \in ExceptionKinds :
            /\ McpRaise(exc)
            /\ UNCHANGED <<m_items, m_built>>
       \/ /\ m_tool \in SearchTools
          /\ \E items \in ItemLists : m_items' = items
          /\ m_built' = <<>>
          /\ m_pc' = "build"
          /\ UNCHANGED <<m_reply, m_raised>>
       \/ /\ m_tool \in CrawlTools
          /\ \E wikitext \in {"", "wikitext"} : m_items' = <<wikitext>>
          /\ m_pc' = "parse"
          /\ UNCHANGED <<m_built, m_reply, m_raised>>
    /\ UNCHANGED m_tool
    /\ UNCHANGED nonMcpVars

\* A search tool builds its result list item by item and returns
\* {"results": [...]}; a failure on an item raises inside the try block.
McpBuild ==
    /\ m_pc = "build"
    /\ IF Len(m_built) = Len(m_items)
       THEN /\ m_reply' = [results |-> m_built]
            /\ m_pc' = "replied"
            /\ UNCHANGED <<m_built, m_raised>>
       ELSE IF m_items[Len(m_built) + 1] = "malformed"
            THEN /\ McpRaise("KeyError")
                 /\ UNCHANGED m_built
            ELSE /\ m_built' = Append(m_built, Len(m_built) + 1)
                 /\ UNCHANGED <<m_pc, m_reply, m_raised>>
    /\ UNCHANGED <<m_tool, m_items>>
    /\ UNCHANGED nonMcpVars

\* A crawl tool: parse_wiki_page, then wiki_page_to_llm_markdown, then
\* {"status": "success", "result": markdown}; either step may raise.
McpParseRender ==
    /\ m_pc \in {"parse", "render"}
    /\ \/ \E exc \in ExceptionKinds : McpRaise(exc)
       \/ /\ m_pc = "parse"
          /\ m_pc' = "render"
          /\ UNCHANGED <<m_reply, m_raised>>
       \/ /\ m_pc = "render"
          /\ m_reply' = [status |-> "success", result |-> <<"markdown", m_items[1]>>]
          /\ m_pc' = "replied"
          /\ UNCHANGED m_raised
    /\ UNCHANGED <<m_tool, m_items, m_built>>
    /\ UNCHANGED nonMcpVars

McpNext == McpInvoke \/ McpCollaborator \/ McpBuild \/ McpParseRender

(***************************************************************************)
(*                 Transclusion expansion (web/moegirl.py)                 *)
(***************************************************************************)
\* Page titles.  "" is the title _normalize_title gives for an empty argument.
Titles == {"Root", "A", "B", "C"}

\* The wiki of most runs: three pages.
SmallWiki == {"Root", "A", "B"}

NoDup(s) == \A i, j \in 1..Len(s) : i # j => s[i] # s[j]

\* _extract_transclusions: non-empty titles, in order, without repetition.
TransclusionLists(wiki) ==
    {s \in UNION {[1..n -> wiki] : n \in 0..MaxRefs} : NoDup(s)}

\* A text is the sequence of the titles whose wikitext it holds, in order:
\* "" is <<>>, the wikitext of a page is <<title>>, and
\* text + "\n\n== child ==\n" + child_text is text \o child_text.
EmptyText == <<>>

NoLevel == 0 - 1

\* `len(visited) >= max_pages`
BudgetExhaustedRootFree(visited, maxPages) == Cardinality(visited \ {"Root"}) >= maxPages
BudgetExhaustedOffByOne(visited, maxPages) == Cardinality(visited) > maxPages
BudgetExhausted(visited, maxPages) == Cardinality(visited) >= maxPages

\* `if depth <= 0: return text`
DepthExhaustedOffByOne(depth) == depth < 0
DepthExhausted(depth) == depth <= 0

\* An exception of fetch_moegirl_wikitext passes through every _fetch frame
\* (none has a try) to the caller: the text gathered so far is dropped.
PropagatedWithPartial(exc, gathered) == [kind |-> exc, text |-> gathered]
Propagated(exc, gathered) == [kind |-> exc, text |-> EmptyText]

FetchGuardIgnoresVisited(title, visited, maxPages) ==
    \/ title = ""
    \/ BudgetExhausted(visited, maxPages)

\* `not title or title in visited or len(visited) >= max_pages`
FetchGuardRefuses(title, visited, maxPages) ==
    \/ title = ""
    \/ title \in visited
    \/ BudgetExhausted(visited, maxPages)

ExpInit ==
    /\ e_pc = "start"
    /\ e_wiki = SmallWiki
    /\ e_maxPages \in 0..MaxPagesBound
    /\ e_maxDepth \in (0 - 1)..MaxDepthBound
    /\ e_visited = {}
    /\ e_stack = <<>>
    /\ e_cur = [title |-> "", depth |-> 0]
    /\ e_ret = EmptyText
    /\ e_result = [kind |-> "none", text |-> EmptyText]
    /\ e_fetches = [t \in Titles |-> 0]
    /\ e_links = [t \in Titles |-> <<>>]
    /\ e_level = [t \in Titles |-> NoLevel]

\* An expansion on a wiki of four pages with a page budget that three
\* fetched pages do not exhaust.
ExpInitWide ==
    /\ e_pc = "start"
    /\ e_wiki = Titles
    /\ e_maxPages = Cardinality(Titles)
    /\ e_maxDepth \in (0 - 1)..MaxDepthBound
    /\ e_visited = {}
    /\ e_stack = <<>>
    /\ e_cur = [title |-> "", depth |-> 0]
    /\ e_ret = EmptyText
    /\ e_result = [kind |-> "none", text |-> EmptyText]
    /\ e_fetches = [t \in Titles |-> 0]
    /\ e_links = [t \in Titles |-> <<>>]
    /\ e_level = [t \in Titles |-> NoLevel]

\* The expansion part switched off (the other specifications use this).
ExpIdle ==
    /\ e_pc = "off"
    /\ e_wiki = {}
    /\ e_maxPages = 0
    /\ e_maxDepth = 0
    /\ e_visited = {}
    /\ e_stack = <<>>
    /\ e_cur = [title |-> "", depth |-> 0]
    /\ e_ret = EmptyText
    /\ e_result = [kind |-> "none", text |-> EmptyText]
    /\ e_fetches = [t \in Titles |-> 0]
    /\ e_links = [t \in Titles |-> <<>>]
    /\ e_level = [t \in Titles |-> NoLevel]

\* title = _normalize_title(title_or_url); an empty title raises ValueError,
\* otherwise _fetch(title, max_depth) is called.
ExpStart ==
    /\ e_pc = "start"
    /\ \E title \in {"", "Root"} :
         IF title = ""
         THEN /\ e_pc' = "error"
              /\ e_result' = [kind |-> "ValueError", text |-> EmptyText]
              /\ UNCHANGED e_cur
         ELSE /\ e_pc' = "call"
              /\ e_cur' = [title |-> title, depth |-> e_maxDepth]
              /\ UNCHANGED e_result
    /\ UNCHANGED <<e_wiki, e_maxPages, e_maxDepth, e_visited, e_stack, e_ret,
                   e_fetches, e_links, e_level>>
    /\ UNCHANGED nonExpVars

\* Entry of _fetch(title, depth): the guard, then visited.add(title).
ExpCall ==
    /\ e_pc = "call"
    /\ IF FetchGuardRefuses(e_cur.title, e_visited, e_maxPages)
       THEN /\ e_ret' = EmptyText
            /\ e_pc' = "return"
            /\ UNCHANGED e_visited
       ELSE /\ e_visited' = e_visited \cup {e_cur.title}
            /\ e_pc' = "fetching"
            /\ UNCHANGED e_ret
    /\ UNCHANGED <<e_wiki, e_maxPages, e_maxDepth, e_stack, e_cur, e_result,
                   e_fetches, e_links, e_level>>
    /\ UNCHANGED nonExpVars

\* text = await fetch_moegirl_wikitext(title): the request fails, or the page
\* has no wikitext (RuntimeError), or the text comes back; nothing in _fetch
\* or in the expansion catches, so a failure ends the whole expansion.  With a
\* text: `if depth <= 0: return text`, `if not transclusions: return text`,
\* otherwise the loop over the transclusions starts.
ExpFetch ==
    /\ e_pc = "fetching"
    /\ e_fetches' = [e_fetches EXCEPT ![e_cur.title] = @ + 1]
    /\ \E outcome \in {"text", "empty", "request_failed"} :
         IF outcome # "text"
         THEN /\ e_pc' = "error"
              /\ e_result' = Propagated(IF outcome = "empty" THEN "RuntimeError"
                                         ELSE "RequestError",
                                         IF e_stack = <<>> THEN EmptyText
                                         ELSE e_stack[1].text \o e_stack[1].appended)
              /\ e_stack' = <<>>
              /\ UNCHANGED <<e_ret, e_links, e_level>>
         ELSE \E refs \in TransclusionLists(e_wiki) :
              /\ e_links' = [e_links EXCEPT ![e_cur.title] = refs]
              /\ e_level' = [e_level EXCEPT ![e_cur.title] = Len(e_stack)]
              /\ UNCHANGED e_result
              /\ IF DepthExhausted(e_cur.depth) \/ refs = <<>>
                 THEN /\ e_ret' = <<e_cur.title>>
                      /\ e_pc' = "return"
                      /\ UNCHANGED e_stack
                 ELSE /\ e_stack' = Append(e_stack,
                                       [title |-> e_cur.title, depth |-> e_cur.depth,
                                        refs |-> refs, idx |-> 1,
                                        text |-> <<e_cur.title>>,
                                        appended |-> EmptyText])
                      /\ e_pc' = "loop"
                      /\ UNCHANGED e_ret
    /\ UNCHANGED <<e_wiki, e_maxPages, e_maxDepth, e_visited, e_cur>>
    /\ UNCHANGED nonExpVars

\* One turn of `for child_title in transclusions`: the loop ends (exhausted,
\* or `len(visited) >= max_pages: break`) and the frame returns
\* text + "".join(appended), or _fetch(child_title, depth - 1) is called.
ExpLoop ==
    /\ e_pc = "loop"
    /\ LET f == e_stack[Len(e_stack)] IN
       IF f.idx > Len(f.refs) \/ BudgetExhausted(e_visited, e_maxPages)
       THEN /\ e_ret' = f.text \o f.appended
            /\ e_stack' = SubSeq(e_stack, 1, Len(e_stack) - 1)
            /\ e_pc' = "return"
            /\ UNCHANGED e_cur
       ELSE /\ e_cur' = [title |-> f.refs[f.idx], depth |-> f.depth - 1]
            /\ e_pc' = "call"
            /\ UNCHANGED <<e_ret, e_stack>>
    /\ UNCHANGED <<e_wiki, e_maxPages, e_maxDepth, e_visited, e_result,
                   e_fetches, e_links, e_level>>
    /\ UNCHANGED nonExpVars

\* A _fetch call returns: to the caller of the expansion, or into the loop of
\* the parent frame (`if child_text: appended.append(...)`).
ExpReturn ==
    /\ e_pc = "return"
    /\ IF e_stack = <<>>
       THEN /\ e_result' = [kind |-> "ok", text |-> e_ret]
            /\ e_pc' = "done"
            /\ UNCHANGED e_stack
       ELSE /\ e_stack' = [e_stack EXCEPT ![Len(e_stack)] =
                             [@ EXCEPT !.appended = @ \o e_ret, !.idx = @ + 1]]
            /\ e_pc' = "loop"
            /\ UNCHANGED e_result
    /\ UNCHANGED <<e_wiki, e_maxPages, e_maxDepth, e_visited, e_cur, e_ret,
                   e_fetches, e_links, e_level>>
    /\ UNCHANGED nonExpVars

ExpNext == ExpStart \/ ExpCall \/ ExpFetch \/ ExpLoop \/ ExpReturn

(***************************************************************************)
(*                   Command line selector (cli.py _run)                   *)
(***************************************************************************)
Sites == {"biligame", "moegirl", "generic"}

\* Host names of the url argument.
Hosts == {"wiki.biligame.com", "mzh.moegirl.org.cn", "zh.moegirl.org.cn",
          "example.com"}

\* _detect_mode: `"wiki.biligame.com" in host`, then `"moegirl.org.cn" in host`.
DetectMode(host) ==
    IF host \in {"wiki.biligame.com"} THEN "biligame"
    ELSE IF host \in {"mzh.moegirl.org.cn", "zh.moegirl.org.cn"} THEN "moegirl"
    ELSE "generic"

\* `mode = _detect_mode(args.url) if args.mode == "auto" else args.mode`
ResolvedMode(args) == IF args.mode = "auto" THEN DetectMode(args.host) ELSE args.mode

\* The call: _run(args) with the parsed arguments, or _run_api_crawl(url, site)
\* called by itself, where mode stands for the site argument.
CliArgs ==
    {a \in [entry : {"_run", "_run_api_crawl"}, host : Hosts,
            mode : {"auto"} \cup Sites, visual : BOOLEAN] :
        a.entry = "_run_api_crawl" => ~a.visual}

\* The site _run_api_crawl is called with.
ApiSite(args) == IF args.entry = "_run_api_crawl" THEN args.mode ELSE ResolvedMode(args)

\* What the target gives to each acquisition mode: the markup API (a text,
\* an empty markup, a failing request), the rendered-HTML text crawl (usable
\* text, nothing usable, a failure) and the visual capture.
CliEnvs == [api : {"text", "empty", "error"},
            html : {"usable", "unusable", "error"},
            visual : {"text", "empty", "error"}]

NoOutput == [kind |-> "none", mode |-> "none", text |-> "none"]

CliInit ==
    /\ c_pc = "start"
    /\ c_args \in CliArgs
    /\ c_env \in CliEnvs
    /\ c_calls = <<>>
    /\ c_out = NoOutput

CliIdle ==
    /\ c_pc = "off"
    /\ c_args = [entry |-> "_run", host |-> "example.com", mode |-> "auto",
                 visual |-> FALSE]
    /\ c_env = [api |-> "text", html |-> "usable", visual |-> "text"]
    /\ c_calls = <<>>
    /\ c_out = NoOutput

\* The branch _run takes for a non-visual request: the API crawl for the two
\* wiki sites, crawl_page for everything else.
NonVisualBranch(mode) == IF mode \in {"biligame", "moegirl"} THEN "api" ELSE "html"

\* `if args.visual: ... else: ...`
SelectBranchIgnoresVisual(args) == NonVisualBranch(ResolvedMode(args))
SelectBranch(args) ==
    IF args.visual THEN "visual" ELSE NonVisualBranch(ResolvedMode(args))

\* The first step of the call: the branch of _run, or the body of
\* _run_api_crawl when that is what was called.
CliSelect ==
    /\ c_pc = "start"
    /\ c_pc' = IF c_args.entry = "_run_api_crawl" THEN "api" ELSE SelectBranch(c_args)
    /\ UNCHANGED <<c_args, c_env, c_calls, c_out>>
    /\ UNCHANGED nonCliVars

\* content = await crawl_*_page_visual_markitdown(...), chosen by mode.
CliVisual ==
    /\ c_pc = "visual"
    /\ c_calls' = Append(c_calls, <<"visual", ResolvedMode(c_args)>>)
    /\ IF c_env.visual = "error"
       THEN /\ c_pc' = "raised"
            /\ c_out' = [kind |-> "raised", mode |-> "visual", text |-> "none"]
       ELSE /\ c_pc' = "output"
            /\ c_out' = [kind |-> "content", mode |-> "visual", text |-> c_env.visual]
    /\ UNCHANGED <<c_args, c_env>>
    /\ UNCHANGED nonCliVars

\* content = await _run_api_crawl(url, site, use_proxy): the expanded fetch,
\* parse_wiki_page, wiki_page_to_llm_markdown.  fetch_moegirl_wikitext raises
\* RuntimeError on an empty markup; the biligame fetch is called the same way
\* and either raises or hands an empty markup on to the parser.  Any other
\* site raises ValueError("Unsupported API site: ...") before anything is
\* fetched.  Nothing in _run_api_crawl or _run catches.
CliApi ==
    /\ c_pc = "api"
    /\ \/ /\ ApiSite(c_args) \notin {"biligame", "moegirl"}
          /\ c_pc' = "raised"
          /\ c_out' = [kind |-> "raised", mode |-> "api", text |-> "Unsupported API site"]
          /\ UNCHANGED c_calls
       \/ /\ ApiSite(c_args) \in {"biligame", "moegirl"}
          /\ c_calls' = Append(c_calls, <<"api", ApiSite(c_args)>>)
          /\ \/ /\ c_env.api = "text"
                /\ c_pc' = "output"
                /\ c_out' = [kind |-> "content", mode |-> "api", text |-> "text"]
             \/ /\ c_env.api = "error" \/ c_env.api = "empty"
                /\ c_pc' = "raised"
                /\ c_out' = [kind |-> "raised", mode |-> "api", text |-> "none"]
             \/ /\ c_env.api = "empty" /\ ApiSite(c_args) = "biligame"
                /\ c_pc' = "output"
                /\ c_out' = [kind |-> "content", mode |-> "api", text |-> "heading_only"]
    /\ UNCHANGED <<c_args, c_env>>
    /\ UNCHANGED nonCliVars

\* content = await crawl_page(url, ...): the text, "" when nothing usable
\* was rendered, or an exception.
CliHtml ==
    /\ c_pc = "html"
    /\ c_calls' = Append(c_calls, <<"html", "generic">>)
    /\ IF c_env.html = "error"
       THEN /\ c_pc' = "raised"
            /\ c_out' = [kind |-> "raised", mode |-> "html", text |-> "none"]
       ELSE /\ c_pc' = "output"
            /\ c_out' = [kind |-> "content", mode |-> "html",
                         text |-> IF c_env.html = "usable" THEN "text" ELSE "empty"]
    /\ UNCHANGED <<c_args, c_env>>
    /\ UNCHANGED nonCliVars

\* print(content) or output_path.write_text(content): _run ends normally
\* (_run_api_crawl called by itself returns the content).
CliOutput ==
    /\ c_pc = "output"
    /\ c_pc' = "done"
    /\ c_out' = [c_out EXCEPT !.kind = "success"]
    /\ UNCHANGED <<c_args, c_env, c_calls>>
    /\ UNCHANGED nonCliVars

CliNext == CliSelect \/ CliVisual \/ CliApi \/ CliHtml \/ CliOutput

(***************************************************************************)
(*          Text crawls: _crawl_with_config (web/crawler.py)               *)
(***************************************************************************)
CrawlEntries == {"crawl_page", "crawl_biligame_page", "crawl_moegirl_page",
                 "crawl_biligame_page_pruned", "crawl_moegirl_page_pruned"}

\* The keyword arguments each public entry point passes to _crawl_with_config.
EntryParams(entry) ==
    [structured |-> entry \in {"crawl_biligame_page", "crawl_moegirl_page"},
     selector |-> entry # "crawl_page",
     antiBot |-> entry \in {"crawl_moegirl_page", "crawl_moegirl_page_pruned"},
     allowRenderFallback |-> FALSE,
     biligameUrl |-> entry \in {"crawl_biligame_page", "crawl_biligame_page_pruned"}]

\* What one crawler.arun gives: the best text _extract_best_text finds
\* ("none", a "text", or "markup" that _looks_like_html), the html
\* _get_result_html finds ("none"; an empty "shell"; "thin": no main
\* container with a table or more than 80 characters; "ready"), and whether
\* _extract_mediawiki_text of that html is non-empty.  A html that is not an
\* empty shell is itself a best-text candidate, so the text is not "none".
EngineResults ==
    {r \in [text : {"none", "text", "markup"},
            html : {"none", "shell", "thin", "ready"},
            mwtext : BOOLEAN] :
        /\ r.html = "none" => ~r.mwtext
        /\ r.html \in {"thin", "ready"} => r.text # "none"}

\* _looks_like_empty_html
LooksLikeEmptyHtml(html) == html \in {"none", "shell"}

\* `html_snapshot and not _looks_like_empty_html(html_snapshot)
\*  and _has_mediawiki_content(html_snapshot)`
HtmlReady(html) == html = "ready"

NoCrawlOut == [kind |-> "none", value |-> "none"]

CrawlInit ==
    /\ k_pc = "start"
    /\ k_entry \in CrawlEntries
    /\ k_cfg \in [timeoutSet : BOOLEAN, userDataDirAttr : BOOLEAN]
    /\ k_content = "none"
    /\ k_html = "none"
    /\ k_attempts = <<>>
    /\ k_out = NoCrawlOut

CrawlIdle ==
    /\ k_pc = "off"
    /\ k_entry = "crawl_page"
    /\ k_cfg = [timeoutSet |-> FALSE, userDataDirAttr |-> FALSE]
    /\ k_content = "none"
    /\ k_html = "none"
    /\ k_attempts = <<>>
    /\ k_out = NoCrawlOut

\* An exception leaves _crawl_with_config and the entry point: nothing in
\* either catches.
CrawlRaise(exc) ==
    /\ k_pc' = "raised"
    /\ k_out' = [kind |-> "raised", value |-> exc]

\* Entry: _resolve_timeout, then _resolve_user_data_dir reads
\* config.crawler_user_data_dir, an attribute the Config dataclass of
\* config.py does not declare: the read raises AttributeError unless the
\* attribute was set on the shared config object.
CrawlStart ==
    /\ k_pc = "start"
    /\ IF k_cfg.userDataDirAttr
       THEN /\ k_pc' = "first"
            /\ UNCHANGED k_out
       ELSE CrawlRaise("AttributeError")
    /\ UNCHANGED <<k_entry, k_cfg, k_content, k_html, k_attempts>>
    /\ UNCHANGED nonCrawlVars

\* The first crawler.arun, with the entry point's css_selector; then
\* `if structured and _looks_like_html(content): content = ""` and
\* `if not content and html_snapshot: content = _extract_mediawiki_text(...)`;
\* a structured crawl with a selector and still no content goes on to the
\* selector-less attempt.
CrawlFirst ==
    /\ k_pc = "first"
    /\ k_attempts' = Append(k_attempts,
                            IF EntryParams(k_entry).selector THEN "scoped" ELSE "unscoped")
    /\ \/ \E exc \in ExceptionKinds :
            /\ CrawlRaise(exc)
            /\ UNCHANGED <<k_content, k_html>>
       \/ \E r \in EngineResults :
            LET p == EntryParams(k_entry)
                c0 == IF p.structured /\ r.text = "markup" THEN "none" ELSE r.text
                c1 == IF p.structured /\ c0 = "none" /\ r.html # "none" /\ r.mwtext
                      THEN "text" ELSE c0
            IN /\ k_content' = c1
               /\ k_html' = r.html
               /\ k_pc' = IF p.structured /\ p.selector /\ c1 = "none"
                          THEN "second"
                          ELSE IF p.structured THEN "render_gate" ELSE "finish"
               /\ UNCHANGED k_out
    /\ UNCHANGED <<k_entry, k_cfg>>
    /\ UNCHANGED nonCrawlVars

\* The fallback crawler.arun with css_selector=None and wait_for "body":
\* its best text, else the mediawiki text of its html, becomes the content;
\* its html replaces the snapshot when the snapshot is empty or shorter.
CrawlSecond ==
    /\ k_pc = "second"
    /\ k_attempts' = Append(k_attempts, "body")
    /\ \/ \E exc \in ExceptionKinds :
            /\ CrawlRaise(exc)
            /\ UNCHANGED <<k_content, k_html>>
       \/ \E r \in EngineResults, longer \in BOOLEAN :
            LET fc == IF r.text = "none" /\ r.html # "none" /\ r.mwtext
                      THEN "text" ELSE r.text
            IN /\ k_content' = IF fc # "none" THEN fc ELSE k_content
               /\ k_html' = IF r.html # "none" /\ (LooksLikeEmptyHtml(k_html) \/ longer)
                            THEN r.html ELSE k_html
               /\ k_pc' = "render_gate"
               /\ UNCHANGED k_out
    /\ UNCHANGED <<k_entry, k_cfg>>
    /\ UNCHANGED nonCrawlVars

\* `render_url = _build_moegirl_render_url(source_url)` and
\* `render_url and render_url != crawl_url`: only a mzh.moegirl.org.cn page
\* has a render url, and crawl_moegirl_page already navigates to it
\* (target_url=render_url), so it never differs from crawl_url.
RenderUrlDiffers(entry) == FALSE

\* `if not html_ready and allow_render_fallback:` the navigation to the
\* render url, whose html replaces the snapshot; html_ready becomes
\* _has_mediawiki_content(render_html) and an empty content is filled from it.
CrawlRender ==
    /\ k_pc = "render_gate"
    /\ LET p == EntryParams(k_entry) IN
       IF ~HtmlReady(k_html) /\ p.allowRenderFallback /\ RenderUrlDiffers(k_entry)
       THEN /\ k_attempts' = Append(k_attempts, "render")
            /\ \/ \E exc \in ExceptionKinds :
                    /\ CrawlRaise(exc)
                    /\ UNCHANGED <<k_content, k_html>>
               \/ \E r \in EngineResults :
                    /\ k_html' = IF r.html # "none" THEN r.html ELSE k_html
                    /\ k_content' = IF k_content = "none" /\ r.html = "ready" /\ r.mwtext
                                    THEN "text" ELSE k_content
                    /\ k_pc' = "finish"
                    /\ UNCHANGED k_out
       ELSE /\ k_pc' = "finish"
            /\ UNCHANGED <<k_content, k_html, k_attempts, k_out>>
    /\ UNCHANGED <<k_entry, k_cfg>>
    /\ UNCHANGED nonCrawlVars

\* What _crawl_with_config returns once its navigations are over: the JSON of
\* the structured payload (html ready, and 300 characters of payload or no
\* content), else the post-processed content, else "".  _post_process_content
\* strips the JSON blocks of a biligame page, which can leave nothing.  No
\* entry point passes allow_render_fallback=True.
CrawlReturnValue(entry, content, html, bigPayload, stripsAll) ==
    LET p == EntryParams(entry) IN
    IF p.structured /\ HtmlReady(html) /\ (bigPayload \/ content = "none")
    THEN "json"
    ELSE IF content = "none" THEN "empty"
    ELSE IF p.biligameUrl /\ stripsAll THEN "empty"
    ELSE content

CrawlFinish ==
    /\ k_pc = "finish"
    /\ \E bigPayload \in BOOLEAN, stripsAll \in BOOLEAN :
         k_out' = [kind |-> "returned",
                   value |-> CrawlReturnValue(k_entry, k_content, k_html,
                                              bigPayload, stripsAll)]
    /\ k_pc' = "done"
    /\ UNCHANGED <<k_entry, k_cfg, k_content, k_html, k_attempts>>
    /\ UNCHANGED nonCrawlVars

\* The overall timeout of _run_with_timeout fires while a navigation is
\* awaited: asyncio.wait_for cancels the crawl and raises TimeoutError.
CrawlTimeout ==
    /\ k_pc \in {"first", "second"}
    /\ k_cfg.timeoutSet
    /\ CrawlRaise("TimeoutError")
    /\ UNCHANGED <<k_entry, k_cfg, k_content, k_html, k_attempts>>
    /\ UNCHANGED nonCrawlVars

CrawlNext ==
    CrawlStart \/ CrawlFirst \/ CrawlSecond \/ CrawlRender \/ CrawlFinish \/ CrawlTimeout

(***************************************************************************)
(*   Visual capture and conversion: crawl_*_page_visual_markitdown,        *)
(*   crawl_*_page_visual, _crawl_page_visual (web/crawler.py)              *)
(***************************************************************************)
CapEntries == {"crawl_page_visual_markitdown",
               "crawl_biligame_page_visual_markitdown",
               "crawl_moegirl_page_visual_markitdown"}

\* The keyword arguments each entry point passes down to _crawl_page_visual:
\* anti_bot, a css_selector, a preload_url, and a print_scale that is not None
\* (the moegirl entry point passes 0.65 when the caller gives none).
CapParams(entry) ==
    [antiBot |-> entry # "crawl_biligame_page_visual_markitdown",
     selector |-> entry # "crawl_page_visual_markitdown",
     preload |-> entry = "crawl_moegirl_page_visual_markitdown",
     printScale |-> entry = "crawl_moegirl_page_visual_markitdown",
     moegirl |-> entry = "crawl_moegirl_page_visual_markitdown"]

\* `max_retries = 2 if anti_bot else 1`
MaxRetries(antiBot) == IF antiBot THEN 2 ELSE 1

\* `if attempt < max_retries - 1:` sleep 2.0 and retry, else re-raise.
RetryAllowedAlways(attempt, maxRetries) == attempt < maxRetries
RetryAllowed(attempt, maxRetries) == attempt < maxRetries - 1

\* Requests: the entry point, capture_pdf, headless (an argument of the moegirl
\* entry point only; the others capture headless), the directory argument
\* (none, output_dir, or a workspace path), keep_files, whether a positive
\* timeout applies, whether config has the crawler_user_data_dir attribute,
\* and whether the caller's directory already holds a <slug>.pdf.
CapRequests ==
    {r \in [entry : CapEntries, capturePdf : BOOLEAN, headless : BOOLEAN,
            dirArg : {"none", "output_dir", "workspace_path"},
            keepFiles : BOOLEAN, timeoutSet : BOOLEAN,
            userDataDirAttr : BOOLEAN, stalePdf : BOOLEAN] :
        /\ r.entry # "crawl_moegirl_page_visual_markitdown" => r.headless
        /\ r.dirArg = "none" => ~r.stalePdf
        /\ r.dirArg # "none" => ~r.keepFiles}

NoWorkspace == [kind |-> "none", exists |-> FALSE, owned |-> FALSE]

\* _resolve_output_dir(output_dir, workspace=..., keep_files=...,
\* require_output_dir=False) with UmamusumeCrawler.__init__: the directory
\* used and whether a temp_workspace object is returned with it.
ResolveOutputDir(dirArg, keepFiles) ==
    IF dirArg = "output_dir"
    THEN [kind |-> "caller_output_dir", exists |-> TRUE, owned |-> FALSE]
    ELSE IF dirArg = "workspace_path"
    THEN [kind |-> "caller_workspace", exists |-> TRUE, owned |-> TRUE]
    ELSE IF keepFiles
    THEN [kind |-> "mkdtemp", exists |-> TRUE, owned |-> TRUE]
    ELSE [kind |-> "TemporaryDirectory", exists |-> TRUE, owned |-> TRUE]

\* UmamusumeCrawler.cleanup: `if not self.is_temp or self.keep_files: return`,
\* else the temporary directory is removed.
Cleanup(ws) ==
    IF ws.kind = "TemporaryDirectory" THEN [ws EXCEPT !.exists = FALSE] ELSE ws

\* `if temp_workspace is not None: temp_workspace.cleanup()`
CleanupIfOwned(ws) == IF ws.owned THEN Cleanup(ws) ELSE ws

FirstPass(entry, capturePdf) ==
    IF CapParams(entry).printScale /\ capturePdf THEN "png_scoped" ELSE "both_scoped"

\* The flags a pass gives run_capture: capture_screenshot, capture_pdf.
PassShootsPng(pass) == pass \in {"png_scoped", "png_body", "both_scoped", "both_body"}
PassPrintsPdf(pass, capturePdf) ==
    \/ pass \in {"pdf_scoped", "pdf_body"}
    \/ pass \in {"both_scoped", "both_body"} /\ capturePdf

\* The pass that follows a finished pass in _crawl_page_visual ("post" when
\* none does): the selector-less pass only when the scoped one saved nothing.
NextPass(pass, saved) ==
    CASE pass = "png_scoped" -> IF saved.png THEN "pdf_scoped" ELSE "png_body"
      [] pass = "png_body" -> "pdf_scoped"
      [] pass = "pdf_scoped" -> IF saved.pdf THEN "post" ELSE "pdf_body"
      [] pass = "pdf_body" -> "post"
      [] pass = "both_scoped" -> IF ~saved.png /\ ~saved.pdf THEN "both_body" ELSE "post"
      [] OTHER -> "post"

FreshPassLog == [navs |-> 0, backoffs |-> 0, last |-> "none", state |-> "running"]

NoCapOut == [kind |-> "none", value |-> "none"]

NoCapture == [call |-> "none", headless |-> TRUE, target |-> "none"]

\* What the request has done so far: how each finished _crawl_page_visual /
\* _capture_and_convert call ended, how many headful retries were started, and
\* the descriptors the _crawl_page_visual calls have returned.
NoHistory == [captures |-> <<>>, headfulStarted |-> 0, descriptors |-> <<>>,
              navs |-> {}]

\* The AsyncWebCrawler of a _crawl_page_visual call: each call opens its own
\* (`async with AsyncWebCrawler(...) as crawler`), the first call of a request
\* the engine 1, the headful retry the engine 2.  The preload navigation and
\* the navigations of run_capture go through that same `crawler`.
PreloadEngine(hist) == hist.headfulStarted + 1
CaptureEngine(hist) == hist.headfulStarted + 1

\* session_id: crawl_moegirl_page_visual passes f"visual-{slug}", the other
\* entry points nothing; _crawl_page_visual hands it to the preload run
\* config and to every capture run config.
SessionId(entry) ==
    IF entry = "crawl_moegirl_page_visual_markitdown" THEN "visual-slug" ELSE "none"

\* A navigation crawler.arun(...) that was issued and has ended.
Navigation(kind, engine, entry, outcome) ==
    [kind |-> kind, engine |-> engine, session |-> SessionId(entry), outcome |-> outcome]

Navigated(hist, nav) == [hist EXCEPT !.navs = @ \cup {nav}]

\* `if not png_saved and not pdf_saved: raise RuntimeError(...)`
NothingSavedNever(saved) == FALSE
NothingSaved(saved) == ~saved.png /\ ~saved.pdf

\* The dictionary _crawl_page_visual returns: str(path) of a saved artifact,
\* "" for one that was not saved.
Descriptor(saved) ==
    [png_path |-> IF saved.png THEN "capture.png" ELSE "",
     pdf_path |-> IF saved.pdf THEN "capture.pdf" ELSE ""]

CapInit ==
    /\ v_pc = "start"
    /\ v_req \in CapRequests
    /\ v_ws = NoWorkspace
    /\ v_files = [png |-> "none", pdf |-> IF v_req.stalePdf THEN "stale" ELSE "none"]
    /\ v_capture = NoCapture
    /\ v_pass = "none"
    /\ v_attempt = 0
    /\ v_saved = [png |-> FALSE, pdf |-> FALSE]
    /\ v_passLog = FreshPassLog
    /\ v_hist = NoHistory
    /\ v_timedOut = FALSE
    /\ v_out = NoCapOut

CapIdle ==
    /\ v_pc = "off"
    /\ v_req = [entry |-> "crawl_page_visual_markitdown", capturePdf |-> TRUE,
                headless |-> TRUE, dirArg |-> "none", keepFiles |-> FALSE,
                timeoutSet |-> FALSE, userDataDirAttr |-> FALSE, stalePdf |-> FALSE]
    /\ v_ws = NoWorkspace
    /\ v_files = [png |-> "none", pdf |-> "none"]
    /\ v_capture = NoCapture
    /\ v_pass = "none"
    /\ v_attempt = 0
    /\ v_saved = [png |-> FALSE, pdf |-> FALSE]
    /\ v_passLog = FreshPassLog
    /\ v_hist = NoHistory
    /\ v_timedOut = FALSE
    /\ v_out = NoCapOut

\* _looks_like_gateway_timeout on the html of a result, the html being empty,
\* an ordinary page, or a body carrying one of the gateway-timeout signatures.
GatewayTimeoutNeverDetected(html) == FALSE
LooksLikeGatewayTimeout(html) == html # "empty" /\ html = "gateway_signature"

\* What the handlers inside _crawl_page_visual do with an exception raised at
\* position pc: the preload `except Exception` lets the passes go on, the
\* `except Exception` of run_capture sleeps and retries while
\* `attempt < max_retries - 1`, everything else leaves the function.
CaughtInVisualNoPreloadHandler(exc, pc, attempt, antiBot) ==
    IF /\ pc = "attempt"
       /\ ExceptClauseCatches(exc)
       /\ RetryAllowed(attempt, MaxRetries(antiBot)) THEN "backoff"
    ELSE "escape"

CaughtInVisual(exc, pc, attempt, antiBot) ==
    IF pc = "preload" /\ ExceptClauseCatches(exc) THEN "resume_passes"
    ELSE IF /\ pc = "attempt"
            /\ ExceptClauseCatches(exc)
            /\ RetryAllowed(attempt, MaxRetries(antiBot)) THEN "backoff"
    ELSE "escape"

\* What `_run` of the markitdown entry point does with an exception leaving the
\* capture or the conversion.  Only the moegirl entry point has handlers: the
\* outer `except Exception` retries headful when the request is headless and
\* re-raises otherwise; the `except Exception` around that retry returns "".
WrapperHandler(exc, entry, call, headlessReq) ==
    IF ~CapParams(entry).moegirl THEN "raise"
    ELSE IF call = "retry_in_except"
    THEN IF ExceptClauseCatches(exc) THEN "return_empty" ELSE "raise"
    ELSE IF ExceptClauseCatches(exc) /\ headlessReq THEN "headful_retry"
    ELSE "raise"

\* asyncio.wait_for turns the cancellation it caused into TimeoutError.
Surfaced(exc) == IF exc = Cancelled THEN "TimeoutError" ELSE exc

\* The cleanup on the way out of `_run`: the moegirl entry point cleans up in
\* the `finally` of its whole body, the other two only in the `finally` around
\* convert_markitdown.
ExitCleanup(entry, ws, fromConvert) ==
    IF CapParams(entry).moegirl \/ fromConvert THEN CleanupIfOwned(ws) ELSE ws

CapFinish(kind, value, fromConvert) ==
    /\ v_pc' = IF kind = "raised" THEN "raised" ELSE "done"
    /\ v_out' = [kind |-> kind, value |-> value]
    /\ v_ws' = ExitCleanup(v_req.entry, v_ws, fromConvert)

\* An exception exc is raised at the current position; log is the pass log
\* with the current attempt counted.
CapThrowFrom(exc, log, hist) ==
    LET inner == CaughtInVisual(exc, v_pc, v_attempt, CapParams(v_req.entry).antiBot)
        outer == WrapperHandler(exc, v_req.entry, v_capture.call, v_req.headless)
        ended == IF exc = Cancelled THEN "cancelled" ELSE "failed"
        logEnd == IF v_pc \in {"attempt", "backoff"}
                  THEN [log EXCEPT !.state = ended] ELSE log
        histEnd == [hist EXCEPT !.captures = Append(@, ended)]
    IN  IF inner = "resume_passes"
        THEN /\ v_pc' = "attempt"
             /\ v_pass' = FirstPass(v_req.entry, v_req.capturePdf)
             /\ v_attempt' = 0
             /\ v_passLog' = FreshPassLog
             /\ v_hist' = hist
             /\ UNCHANGED <<v_ws, v_capture, v_saved, v_out>>
        ELSE IF inner = "backoff"
        THEN /\ v_pc' = "backoff"
             /\ v_passLog' = log
             /\ v_hist' = hist
             /\ UNCHANGED <<v_ws, v_capture, v_pass, v_attempt, v_saved, v_out>>
        ELSE IF outer = "headful_retry"
        THEN /\ v_pc' = "setup"
             /\ v_capture' = [call |-> "retry_in_except", headless |-> FALSE,
                              target |-> "none"]
             /\ v_pass' = "none"
             /\ v_attempt' = 0
             /\ v_saved' = [png |-> FALSE, pdf |-> FALSE]
             /\ v_passLog' = logEnd
             /\ v_hist' = [histEnd EXCEPT !.headfulStarted = @ + 1]
             /\ UNCHANGED <<v_ws, v_out>>
        ELSE /\ IF outer = "return_empty"
                THEN CapFinish("returned", "empty", v_pc = "convert")
                ELSE CapFinish("raised", Surfaced(exc), v_pc = "convert")
             /\ v_passLog' = logEnd
             /\ v_hist' = histEnd
             /\ UNCHANGED <<v_capture, v_pass, v_attempt, v_saved>>

CapThrow(exc, log) == CapThrowFrom(exc, log, v_hist)

\* `_run`: _resolve_output_dir, then the first capture with the caller's
\* headless flag.
CapBegin ==
    /\ v_pc = "start"
    /\ v_ws' = ResolveOutputDir(v_req.dirArg, v_req.keepFiles)
    /\ v_capture' = [call |-> "first", headless |-> v_req.headless, target |-> "none"]
    /\ v_pc' = "setup"
    /\ UNCHANGED <<v_req, v_files, v_pass, v_attempt, v_saved, v_passLog, v_hist,
                   v_timedOut, v_out>>
    /\ UNCHANGED nonCapVars

\* _crawl_page_visual up to the browser start: _resolve_user_data_dir reads
\* config.crawler_user_data_dir.
CapSetup ==
    /\ v_pc = "setup"
    /\ IF v_req.userDataDirAttr
       THEN /\ v_pc' = "browser"
            /\ UNCHANGED <<v_ws, v_capture, v_pass, v_attempt, v_saved, v_passLog,
                           v_hist, v_out>>
       ELSE CapThrow("AttributeError", v_passLog)
    /\ UNCHANGED <<v_req, v_files, v_timedOut>>
    /\ UNCHANGED nonCapVars

\* `async with AsyncWebCrawler(...)`: the browser starts or fails to.
CapBrowser ==
    /\ v_pc = "browser"
    /\ \E ok \in BOOLEAN :
         IF ok
         THEN /\ v_pc' = IF CapParams(v_req.entry).preload THEN "preload" ELSE "attempt"
              /\ v_pass' = IF CapParams(v_req.entry).preload THEN "none"
                           ELSE FirstPass(v_req.entry, v_req.capturePdf)
              /\ v_attempt' = 0
              /\ v_passLog' = FreshPassLog
              /\ UNCHANGED <<v_ws, v_capture, v_saved, v_hist, v_out>>
         ELSE CapThrow("RuntimeError", v_passLog)
    /\ UNCHANGED <<v_req, v_files, v_timedOut>>
    /\ UNCHANGED nonCapVars

\* The preload navigation and the sleep after it, inside `try ... except
\* Exception`.
CapPreload ==
    /\ v_pc = "preload"
    /\ \E outcome \in {"ok", "RuntimeError", "TimeoutError"} :
         LET hist == Navigated(v_hist, Navigation("preload", PreloadEngine(v_hist),
                                                  v_req.entry, outcome))
         IN
         /\ outcome = "TimeoutError" => v_req.timeoutSet
         /\ IF outcome = "ok"
            THEN /\ v_pc' = "attempt"
                 /\ v_pass' = FirstPass(v_req.entry, v_req.capturePdf)
                 /\ v_attempt' = 0
                 /\ v_passLog' = FreshPassLog
                 /\ v_hist' = hist
                 /\ UNCHANGED <<v_ws, v_capture, v_saved, v_out>>
            ELSE CapThrowFrom(outcome, v_passLog, hist)
    /\ UNCHANGED <<v_req, v_files, v_timedOut>>
    /\ UNCHANGED nonCapVars

\* One iteration of the retry loop of run_capture: the navigation returns a
\* result, raises, or runs into its per-attempt timeout (set only when a
\* positive timeout applies).  A result whose html shows a gateway timeout is
\* turned into RuntimeError; any other result ends the loop and is saved.
CapAttempt ==
    /\ v_pc = "attempt"
    /\ LET counted == [v_passLog EXCEPT !.navs = @ + 1]
           hist == Navigated(v_hist, Navigation("target", CaptureEngine(v_hist),
                                                v_req.entry, "ended"))
       IN
       \E outcome \in {"empty", "page", "gateway_signature", "RuntimeError", "TimeoutError"} :
         /\ outcome = "TimeoutError" => v_req.timeoutSet
         /\ IF outcome \in {"RuntimeError", "TimeoutError"}
            THEN /\ CapThrowFrom(outcome, [counted EXCEPT !.last =
                                 IF outcome = "TimeoutError" THEN "timeout" ELSE "error"],
                                 hist)
                 /\ UNCHANGED v_files
            ELSE IF LooksLikeGatewayTimeout(outcome)
            THEN /\ CapThrowFrom("RuntimeError", [counted EXCEPT !.last = "gateway"], hist)
                 /\ UNCHANGED v_files
            ELSE \E png \in BOOLEAN, pdf \in BOOLEAN :
                 /\ png => PassShootsPng(v_pass)
                 /\ pdf => PassPrintsPdf(v_pass, v_req.capturePdf)
                 /\ v_saved' = [png |-> IF PassShootsPng(v_pass) THEN png ELSE v_saved.png,
                                pdf |-> IF v_pass \in {"png_scoped", "png_body"}
                                        THEN v_saved.pdf ELSE pdf]
                 /\ v_files' = [png |-> IF png THEN "fresh" ELSE v_files.png,
                                pdf |-> IF pdf THEN "fresh" ELSE v_files.pdf]
                 /\ v_passLog' = [counted EXCEPT
                                    !.last = IF outcome = "gateway_signature"
                                             THEN "gateway" ELSE "result",
                                    !.state = "ok"]
                 /\ v_pc' = "saved"
                 /\ v_hist' = hist
                 /\ UNCHANGED <<v_ws, v_capture, v_pass, v_attempt, v_out>>
    /\ UNCHANGED <<v_req, v_timedOut>>
    /\ UNCHANGED nonCapVars

\* `await asyncio.sleep(2.0); continue`: the sleep ends and the loop goes on
\* with the next attempt; when the loop has run out, `raise last_error`.
CapBackoff ==
    /\ v_pc = "backoff"
    /\ LET slept == [v_passLog EXCEPT !.backoffs = @ + 1] IN
       IF v_attempt + 1 < MaxRetries(CapParams(v_req.entry).antiBot)
       THEN /\ v_attempt' = v_attempt + 1
            /\ v_pc' = "attempt"
            /\ v_passLog' = slept
            /\ UNCHANGED <<v_ws, v_capture, v_pass, v_saved, v_hist, v_out>>
       ELSE CapThrow("RuntimeError", slept)
    /\ UNCHANGED <<v_req, v_files, v_timedOut>>
    /\ UNCHANGED nonCapVars

\* After a pass of run_capture has returned: the next pass, or the end of the
\* `async with` block.
CapAfterPass ==
    /\ v_pc = "saved"
    /\ LET next == NextPass(v_pass, v_saved) IN
       IF next = "post"
       THEN /\ v_pc' = "post"
            /\ UNCHANGED <<v_pass, v_attempt, v_passLog>>
       ELSE /\ v_pc' = "attempt"
            /\ v_pass' = next
            /\ v_attempt' = 0
            /\ v_passLog' = FreshPassLog
    /\ UNCHANGED <<v_req, v_ws, v_files, v_capture, v_saved, v_hist, v_timedOut, v_out>>
    /\ UNCHANGED nonCapVars

\* The file handed to convert_markitdown.  With capture_pdf it is the capture's
\* pdf_path; the moegirl entry point also takes an existing <slug>.pdf of the
\* output directory; without capture_pdf it is _choose_capture_path(capture).
\* "none" stands for the empty target_path.
TargetPathFallsBackToPng(entry, capturePdf, saved, files) ==
    IF saved.pdf THEN "pdf" ELSE IF saved.png THEN "png" ELSE "none"

TargetPath(entry, capturePdf, saved, files) ==
    IF capturePdf
    THEN IF saved.pdf THEN "pdf"
         ELSE IF CapParams(entry).moegirl /\ files.pdf # "none" THEN "pdf"
         ELSE "none"
    ELSE IF saved.pdf THEN "pdf" ELSE IF saved.png THEN "png" ELSE "none"

\* The end of _crawl_page_visual and the choice of the conversion target in
\* the caller: RuntimeError when neither artifact was saved; otherwise the
\* descriptor is returned, and the caller raises RuntimeError when capture_pdf
\* is set and there is no pdf, and returns "" when there is no target at all.
CapPost ==
    /\ v_pc = "post"
    /\ LET target == TargetPath(v_req.entry, v_req.capturePdf, v_saved, v_files)
           returned == [v_hist EXCEPT !.descriptors = Append(@, Descriptor(v_saved))]
       IN
       IF NothingSaved(v_saved)
       THEN CapThrow("RuntimeError", v_passLog)
       ELSE IF target = "none" /\ v_req.capturePdf
       THEN CapThrowFrom("RuntimeError", v_passLog, returned)
       ELSE IF target = "none"
       THEN /\ CapFinish("returned", "empty", FALSE)
            /\ v_hist' = [returned EXCEPT !.captures = Append(@, "empty")]
            /\ UNCHANGED <<v_capture, v_pass, v_attempt, v_saved, v_passLog>>
       ELSE /\ v_pc' = "convert"
            /\ v_capture' = [v_capture EXCEPT !.target = target]
            /\ v_hist' = returned
            /\ UNCHANGED <<v_ws, v_pass, v_attempt, v_saved, v_passLog, v_out>>
    /\ UNCHANGED <<v_req, v_files, v_timedOut>>
    /\ UNCHANGED nonCapVars

\* convert_markitdown(target_path): text, "" (`result.text_content or ""`), or
\* an exception.  The moegirl entry point retries headful when the first,
\* headless capture converted to "".
CapConvert ==
    /\ v_pc = "convert"
    /\ \E outcome \in {"text", "empty", "ValueError"} :
         IF outcome = "ValueError"
         THEN CapThrow("ValueError", v_passLog)
         ELSE IF /\ outcome = "empty"
                 /\ CapParams(v_req.entry).moegirl
                 /\ v_capture.call = "first"
                 /\ v_req.headless
         THEN /\ v_pc' = "setup"
              /\ v_capture' = [call |-> "retry_in_try", headless |-> FALSE,
                               target |-> "none"]
              /\ v_pass' = "none"
              /\ v_attempt' = 0
              /\ v_saved' = [png |-> FALSE, pdf |-> FALSE]
              /\ v_hist' = [v_hist EXCEPT !.captures = Append(@, "empty"),
                                          !.headfulStarted = @ + 1]
              /\ UNCHANGED <<v_ws, v_passLog, v_out>>
         ELSE /\ CapFinish("returned", outcome, TRUE)
              /\ v_hist' = [v_hist EXCEPT !.captures = Append(@, outcome)]
              /\ UNCHANGED <<v_capture, v_pass, v_attempt, v_saved, v_passLog>>
    /\ UNCHANGED <<v_req, v_files, v_timedOut>>
    /\ UNCHANGED nonCapVars

\* The timer of the outermost asyncio.wait_for fires while the request is
\* suspended in an await: the coroutine is cancelled where it stands (a
\* navigation under way counts as an attempt made).
CapOverallTimeout ==
    /\ v_pc \in {"browser", "preload", "attempt", "backoff"}
    /\ v_req.timeoutSet
    /\ ~v_timedOut
    /\ v_timedOut' = TRUE
    /\ CapThrow(Cancelled, IF v_pc = "attempt"
                           THEN [v_passLog EXCEPT !.navs = @ + 1, !.last = "cancelled"]
                           ELSE v_passLog)
    /\ UNCHANGED <<v_req, v_files>>
    /\ UNCHANGED nonCapVars

\* tempfile.TemporaryDirectory removes its directory when the object is
\* finalized, which can happen once the call is over and nothing refers to the
\* workspace any more.
CapFinalizer ==
    /\ v_pc \in {"done", "raised"}
    /\ v_ws.kind = "TemporaryDirectory"
    /\ v_ws.exists
    /\ v_ws' = [v_ws EXCEPT !.exists = FALSE]
    /\ UNCHANGED <<v_pc, v_req, v_files, v_capture, v_pass, v_attempt, v_saved,
                   v_passLog, v_hist, v_timedOut, v_out>>
    /\ UNCHANGED nonCapVars

CapNext ==
    \/ CapBegin
    \/ CapSetup
    \/ CapBrowser
    \/ CapPreload
    \/ CapAttempt
    \/ CapBackoff
    \/ CapAfterPass
    \/ CapPost
    \/ CapConvert
    \/ CapOverallTimeout
    \/ CapFinalizer

(***************************************************************************)
(*        The markup parser: web/parse_wiki_infobox.py                     *)
(***************************************************************************)
\* A wikitext is a sequence of symbols.  A symbol is one of the characters the
\* parser looks at ("{", "}", "|", "=", newline, blank) or a run of ordinary
\* characters: a word, among them a marker of _INFOBOX_MARKERS, or Pad, a run
\* of 120 ordinary characters.
Newline == "\n"
Blank == " "
Pad == "pad120"
Marker == "infobox"

\* The number of characters a symbol stands for.
SymWidth(sym) ==
    IF sym = Pad THEN 120
    ELSE IF sym \in {"{", "}", "|", "=", Newline, Blank} THEN 1
    ELSE 4

NoBlock == [block |-> <<>>, start |-> 0 - 1, end |-> 0 - 1]

IsOpenerAt(text, i) == i + 1 <= Len(text) /\ text[i] = "{" /\ text[i + 1] = "{"
IsCloserAt(text, i) == i + 1 <= Len(text) /\ text[i] = "}" /\ text[i + 1] = "}"

\* re.finditer(r"\{\{", wikitext): the next match at or after index from
\* (1-based), 0 when there is none; the search goes on behind a match.
RECURSIVE NextOpener(_, _)
NextOpener(text, from) ==
    IF from + 1 > Len(text) THEN 0
    ELSE IF IsOpenerAt(text, from) THEN from
    ELSE NextOpener(text, from + 1)

\* `preview = wikitext[start : start + 120].lower()` and
\* `any(marker in preview ...)`: a marker that lies within the 120 characters
\* that begin at the opener.  used is the width of the symbols before index j.
RECURSIVE MarkerInPreview(_, _, _)
MarkerInPreview(text, j, used) ==
    IF j > Len(text) \/ used + SymWidth(text[j]) > 120 THEN FALSE
    ELSE IF text[j] = Marker THEN TRUE
    ELSE MarkerInPreview(text, j + 1, used + SymWidth(text[j]))

Qualifies(text, k) == MarkerInPreview(text, k, 0)

\* The depth-counter scan `while i < len(wikitext)`: the index just behind the
\* closer that brings the depth back to 0, or 0 when the text ends first.
RECURSIVE ScanToFirstCloser(_, _, _)
ScanToFirstCloser(text, i, depth) ==
    IF i > Len(text) THEN 0
    ELSE IF IsCloserAt(text, i) THEN i + 2
    ELSE ScanToFirstCloser(text, i + 1, depth)

RECURSIVE ScanToClose(_, _, _)
ScanToClose(text, i, depth) ==
    IF i > Len(text) THEN 0
    ELSE IF IsOpenerAt(text, i) THEN ScanToClose(text, i + 2, depth + 1)
    ELSE IF IsCloserAt(text, i)
    THEN IF depth - 1 = 0 THEN i + 2 ELSE ScanToClose(text, i + 2, depth - 1)
    ELSE ScanToClose(text, i + 1, depth)

\* The loop over the matches: an opener that does not qualify, or that the
\* scan does not close, is passed over and the next match is tried.
RECURSIVE ExtractFrom(_, _)
ExtractFrom(text, from) ==
    LET k == NextOpener(text, from) IN
    IF k = 0 THEN NoBlock
    ELSE IF ~Qualifies(text, k) THEN ExtractFrom(text, k + 2)
    ELSE LET e == ScanToClose(text, k, 0) IN
         IF e = 0 THEN ExtractFrom(text, k + 2)
         ELSE [block |-> SubSeq(text, k, e - 1), start |-> k - 1, end |-> e - 1]

\* _extract_infobox_block(wikitext) -> (block, start, end), positions 0-based.
ExtractInfoboxBlock(text) ==
    IF text = <<>> THEN NoBlock ELSE ExtractFrom(text, 1)

\* Concatenation of a sequence of pieces.
RECURSIVE Flatten(_)
Flatten(pieces) ==
    IF pieces = <<>> THEN <<>> ELSE Head(pieces) \o Flatten(Tail(pieces))

\* The inputs of the balance check: every text made of at most MaxTextLen
\* pieces, a piece being a double or single brace, the marker or the pad.
BracePieces == {<<"{", "{">>, <<"}", "}">>, <<"{">>, <<"}">>, <<Marker>>, <<Pad>>}
BraceTexts == {Flatten(ps) : ps \in UNION {[1..n -> BracePieces] : n \in 0..MaxTextLen}}

IsSpace(sym) == sym \in {Blank, Newline}

Has(seq, sym) == \E n \in 1..Len(seq) : seq[n] = sym

\* str.lstrip / str.rstrip / str.strip
RECURSIVE LStrip(_)
LStrip(seq) ==
    IF seq # <<>> /\ IsSpace(Head(seq)) THEN LStrip(Tail(seq)) ELSE seq

RECURSIVE RStrip(_)
RStrip(seq) ==
    IF seq # <<>> /\ IsSpace(seq[Len(seq)])
    THEN RStrip(SubSeq(seq, 1, Len(seq) - 1)) ELSE seq

Strip(seq) == LStrip(RStrip(seq))

\* str.split(sep): the pieces between the separators, the last one included
\* even when it is empty.
RECURSIVE SplitAcc(_, _, _, _)
SplitAcc(seq, sep, cur, acc) ==
    IF seq = <<>> THEN Append(acc, cur)
    ELSE IF Head(seq) = sep THEN SplitAcc(Tail(seq), sep, <<>>, Append(acc, cur))
    ELSE SplitAcc(Tail(seq), sep, Append(cur, Head(seq)), acc)

Split(seq, sep) == SplitAcc(seq, sep, <<>>, <<>>)

\* str.splitlines(): as split on the newline, without the empty piece behind
\* a final newline and with no piece at all for the empty text.
SplitLines(text) ==
    LET pieces == Split(text, Newline) IN
    IF pieces[Len(pieces)] = <<>> THEN SubSeq(pieces, 1, Len(pieces) - 1) ELSE pieces

\* sep.join(pieces)
RECURSIVE Join(_, _)
Join(pieces, sep) ==
    IF pieces = <<>> THEN <<>>
    ELSE IF Len(pieces) = 1 THEN pieces[1]
    ELSE pieces[1] \o <<sep>> \o Join(Tail(pieces), sep)

\* Template names whose first plain parameter is kept.
NoticeNames == {<<"notice">>, <<"tip">>}

IsPlainParam(param) == param # <<>> /\ ~Has(param, "=")

RECURSIVE FirstPlain(_)
FirstPlain(params) ==
    IF params = <<>> THEN <<>>
    ELSE IF ~Has(Head(params), "=") THEN Head(params)
    ELSE FirstPlain(Tail(params))

RECURSIVE LastPlain(_)
LastPlain(params) ==
    IF params = <<>> THEN <<>>
    ELSE IF IsPlainParam(params[Len(params)]) THEN params[Len(params)]
    ELSE LastPlain(SubSeq(params, 1, Len(params) - 1))

\* _clean_template(content, site=...): the text a template is replaced by.
\* Apart from the notice templates every branch keeps the last parameter that
\* is not of the form key=value.
CleanTemplate(content) ==
    LET pieces == Split(content, "|")
        parts == [n \in 1..Len(pieces) |-> Strip(pieces[n])]
        name == parts[1]
        params == SelectSeq(Tail(parts), LAMBDA part : part # <<>>)
    IN  IF name \in NoticeNames THEN FirstPlain(params) ELSE LastPlain(params)

\* The end of the shortest `\{\{(.*?)\}\}` match whose content begins at i:
\* the index of the first closer on the same line, 0 when there is none.
RECURSIVE FirstCloserSameLine(_, _)
FirstCloserSameLine(text, i) ==
    IF i + 1 > Len(text) THEN 0
    ELSE IF text[i] = Newline THEN 0
    ELSE IF IsCloserAt(text, i) THEN i
    ELSE FirstCloserSameLine(text, i + 1)

\* re.sub(r"\{\{(.*?)\}\}", replace_template, text), from index i on.
RECURSIVE ReplaceTemplates(_, _)
ReplaceTemplates(text, i) ==
    IF i > Len(text) THEN <<>>
    ELSE LET c == IF IsOpenerAt(text, i) THEN FirstCloserSameLine(text, i + 2) ELSE 0 IN
         IF c # 0
         THEN CleanTemplate(SubSeq(text, i + 2, c - 1)) \o ReplaceTemplates(text, c + 2)
         ELSE <<text[i]>> \o ReplaceTemplates(text, i + 1)

\* clean_wiki_value(text, site=...).  The symbols have no link brackets,
\* quote runs or tags, so of its substitutions only the template one applies.
CleanWikiValue(text) ==
    IF text = <<>> THEN <<>> ELSE Strip(ReplaceTemplates(text, 1))

\* data[key] = value of a dict kept as a set of key/value records.
Put(data, key, value) ==
    {d \in data : d.key # key} \cup {[key |-> key, value |-> value]}

\* The flush of _parse_infobox_fields: `if current_key:` the joined buffer is
\* cleaned and stored when something is left of it.
FlushField(data, key, buffer) ==
    LET cleaned == CleanWikiValue(Strip(Join(buffer, Newline))) IN
    IF key # <<>> /\ cleaned # <<>> THEN Put(data, key, cleaned) ELSE data

\* The index of the first "=" of a line that has one.
RECURSIVE FirstEquals(_, _)
FirstEquals(line, n) ==
    IF n > Len(line) THEN 0
    ELSE IF line[n] = "=" THEN n
    ELSE FirstEquals(line, n + 1)

\* The loop of _parse_infobox_fields over the lines of the block: a line that
\* starts with "|" and has an "=" opens a field, any other line continues the
\* open field.
\* `data: Dict[str, str] = {}`: every call of _parse_infobox_fields starts
\* from a new empty dict, whatever dict an earlier call built.
NewDictShared(left) == left
NewDict(left) == {}

RECURSIVE FieldsLoop(_, _, _, _)
FieldsLoop(lines, key, buffer, data) ==
    IF lines = <<>> THEN FlushField(data, key, buffer)
    ELSE LET line == RStrip(Head(lines)) IN
         IF line # <<>> /\ line[1] = "|" /\ Has(line, "=")
         THEN LET rest == Tail(line)
                  eq == FirstEquals(rest, 1)
              IN  FieldsLoop(Tail(lines),
                             Strip(SubSeq(rest, 1, eq - 1)),
                             <<Strip(SubSeq(rest, eq + 1, Len(rest)))>>,
                             FlushField(data, key, buffer))
         ELSE IF key # <<>>
         THEN FieldsLoop(Tail(lines), key, Append(buffer, Strip(line)), data)
         ELSE FieldsLoop(Tail(lines), key, buffer, data)

\* _parse_infobox_fields(infobox_raw, site=...)
ParseInfoboxFields(block) == FieldsLoop(SplitLines(block), <<>>, <<>>, NewDict(r_left))

\* The number of "=" a line begins with.
RECURSIVE LeadingEquals(_)
LeadingEquals(line) ==
    IF line # <<>> /\ Head(line) = "=" THEN 1 + LeadingEquals(Tail(line)) ELSE 0

\* _SECTION_PATTERN `^(={2,})\s*(.+?)\s*\1\s*$` with g "=" in the group: the
\* line, trailing blanks aside, ends with the same g "=" and has at least one
\* character between the two runs.
BarsFit(line, g) ==
    LET t == RStrip(line) IN
    /\ Len(t) >= 2 * g + 1
    /\ \A n \in 1..g : t[n] = "=" /\ t[Len(t) + 1 - n] = "="

\* The group the greedy match settles on, 0 when the line is no heading.
HeadingBars(line) ==
    LET fits == {g \in 2..LeadingEquals(line) : BarsFit(line, g)} IN
    IF fits = {} THEN 0 ELSE CHOOSE g \in fits : \A h \in fits : h <= g

\* `match.group(2).strip() or "section"`
HeadingText(line) ==
    LET g == HeadingBars(line)
        t == RStrip(line)
        title == Strip(SubSeq(t, g + 1, Len(t) - g))
    IN  IF title = <<>> THEN <<"section">> ELSE title

\* flush() of _split_sections
FlushSection(sections, heading, buffer) ==
    LET cleaned == CleanWikiValue(Strip(Join(buffer, Newline))) IN
    IF buffer # <<>> /\ cleaned # <<>>
    THEN Append(sections, [heading |-> heading, content |-> cleaned])
    ELSE sections

RECURSIVE SectionsLoop(_, _, _, _)
SectionsLoop(lines, heading, buffer, sections) ==
    IF lines = <<>> THEN FlushSection(sections, heading, buffer)
    ELSE IF HeadingBars(Head(lines)) # 0
    THEN SectionsLoop(Tail(lines), HeadingText(Head(lines)), <<>>,
                      FlushSection(sections, heading, buffer))
    ELSE SectionsLoop(Tail(lines), heading, Append(buffer, Head(lines)), sections)

\* _split_sections(wikitext, site=...)
SplitSections(text) == SectionsLoop(SplitLines(text), <<"intro">>, <<>>, <<>>)

\* The end of the \\s* of the transclusion pattern: the first index from i on
\* that holds no whitespace.
RECURSIVE SkipSpaces(_, _)
SkipSpaces(text, i) ==
    IF i <= Len(text) /\ IsSpace(text[i]) THEN SkipSpaces(text, i + 1) ELSE i

\* The end of the group ([^}|]+) of the transclusion pattern: the first index
\* from i on that holds a closing brace or a bar, or the end of the text.
RECURSIVE TitleEnd(_, _)
TitleEnd(text, i) ==
    IF i <= Len(text) /\ text[i] \notin {"}", "|"} THEN TitleEnd(text, i + 1) ELSE i

\* The loop of _extract_transclusions over the matches of \{\{:\s*([^}|]+).
RECURSIVE TransclusionsLoop(_, _, _)
TransclusionsLoop(text, i, titles) ==
    IF i > Len(text) THEN titles
    ELSE IF i + 2 <= Len(text) /\ text[i] = "{" /\ text[i + 1] = "{" /\ text[i + 2] = ":"
    THEN LET from == SkipSpaces(text, i + 3)
             to == TitleEnd(text, from)
             title == Strip(SubSeq(text, from, to - 1))
         IN  IF to = from THEN TransclusionsLoop(text, i + 1, titles)
             ELSE TransclusionsLoop(text, to,
                      IF title # <<>> /\ ~Has(titles, title)
                      THEN Append(titles, title) ELSE titles)
    ELSE TransclusionsLoop(text, i + 1, titles)

\* _extract_transclusions(wikitext)
ExtractTransclusions(text) == TransclusionsLoop(text, 1, <<>>)

\* intro_text of parse_wiki_page: the content of the first section, if any.
IntroText(sections) == IF sections # <<>> THEN sections[1].content ELSE <<>>

NoPage == [infobox |-> {}, intro |-> <<>>, sections |-> <<>>, transclusions |-> <<>>,
           remaining |-> <<>>]

\* parse_wiki_page(wikitext, site=...): the infobox fields of the extracted
\* block, the text without the block, its sections, its intro and the
\* transclusions of the text without the block.
ParseWikiPage(text) ==
    LET found == ExtractInfoboxBlock(text)
        remaining == IF found.block = <<>> THEN text
                     ELSE Strip(SubSeq(text, 1, found.start)
                                \o SubSeq(text, found.end + 1, Len(text)))
        sections == SplitSections(remaining)
    IN  IF text = <<>> THEN NoPage
        ELSE [infobox |-> IF found.block = <<>> THEN {}
                          ELSE ParseInfoboxFields(found.block),
              intro |-> IntroText(sections),
              sections |-> sections,
              transclusions |-> ExtractTransclusions(remaining),
              remaining |-> remaining]

ParseIdle ==
    /\ p_pc = "off"
    /\ p_text = <<>>
    /\ p_block = NoBlock
    /\ p_page = NoPage

StrIdle ==
    /\ s_pc = "off"
    /\ s_url = "https://mzh.moegirl.org.cn/X"
    /\ s_elements = <<>>
    /\ s_sections = <<>>

\* Line-structured inputs: up to MaxLines lines, each a heading line, a line of
\* text, a blank line or a line holding only a template without parameters.
LineKinds == {<<"=", "=", "h", "=", "=">>, <<"x">>, <<Blank>>,
              <<"{", "{", "x", "}", "}">>}
LineTexts == {Join(ls, Newline) : ls \in UNION {[1..n -> LineKinds] : n \in 1..MaxLines}}

\* An info block with its parameters written inline on one line, followed by
\* body text: {{<marker>|<name_zh>=<test>|<summary>=<one_line>}}<body>.
InlineInfoboxMarkup ==
    <<"{", "{", Marker, "|", "name_zh", "=", "test", "|", "summary", "=",
      "one_line", "}", "}", "body">>

\* The same block with one parameter per line, as the wikis write it.
MultiLineInfoboxMarkup ==
    <<"{", "{", Marker, Newline, "|", "name_zh", "=", "test", Newline,
      "|", "summary", "=", "one_line", Newline, "}", "}", Newline, "body">>

\* Pages of up to MaxPieces pieces around transclusions: {{:A}}, {{:B}},
\* {{: A |x}}, a word, a line break, a template without parameters and an
\* info block whose one field transcludes C.
TransclusionPieces ==
    {<<"{", "{", ":", "A", "}", "}">>,
     <<"{", "{", ":", "B", "}", "}">>,
     <<"{", "{", ":", Blank, "A", Blank, "|", "x", "}", "}">>,
     <<"x">>,
     <<Newline>>,
     <<"{", "{", "x", "}", "}">>,
     <<"{", "{", Marker, Newline, "|", "k", "=", "{", "{", ":", "C", "}", "}",
       Newline, "}", "}">>}
TransclusionTexts ==
    {Flatten(ps) : ps \in UNION {[1..n -> TransclusionPieces] : n \in 1..MaxPieces}}

ParseInit ==
    /\ p_pc = "input"
    /\ p_text \in BraceTexts \cup LineTexts \cup TransclusionTexts
                  \cup {InlineInfoboxMarkup, MultiLineInfoboxMarkup}
    /\ p_block = NoBlock
    /\ p_page = NoPage

\* block, start, end = _extract_infobox_block(wikitext)
ParseExtract ==
    /\ p_pc = "input"
    /\ p_block' = ExtractInfoboxBlock(p_text)
    /\ p_pc' = "extracted"
    /\ UNCHANGED <<p_text, p_page>>
    /\ UNCHANGED nonParseVars

\* page = parse_wiki_page(wikitext, site=...)
ParsePage ==
    /\ p_pc = "extracted"
    /\ p_page' = ParseWikiPage(p_text)
    /\ p_pc' = "parsed"
    /\ UNCHANGED <<p_text, p_block>>
    /\ UNCHANGED nonParseVars

ParseNext == ParseExtract \/ ParsePage

(***************************************************************************)
(*   The HTML extractor: _extract_mediawiki_structured (web/crawler.py)    *)
(***************************************************************************)
\* A content entry is the text of one block, a sequence of lines.  A line is
\* a word in two spellings that differ in case only ("Abc", "abc"), a single
\* character ("a"), a line with one of _NOISE_SNIPPETS ("noise"), a line with
\* one of _BILIGAME_JSON_MARKERS and balanced brackets ("json") or with an
\* open bracket ("json["), or a closing bracket ("]").
EntryTexts == {<<>>, <<"Abc">>, <<"abc">>, <<"a">>, <<"noise">>,
               <<"Abc", "json">>, <<"a", "json[", "abc", "]">>}

\* The blocks _collect_blocks returns: headings (h2/h3/h4, with or without
\* text), tables (with or without rows) and text blocks.
Elements ==
    [kind : {"heading"}, text : {<<"H">>, <<>>}, rows : {FALSE}]
    \cup [kind : {"table"}, text : {<<>>}, rows : BOOLEAN]
    \cup [kind : {"text"}, text : EntryTexts, rows : {FALSE}]

SourceUrls == {"https://wiki.biligame.com/umamusume/X",
               "https://wiki.biligame.com/other/X",
               "https://mzh.moegirl.org.cn/X"}

\* `"wiki.biligame.com/umamusume" in source_url`
IsBiligameUmamusume(url) == url \in {"https://wiki.biligame.com/umamusume/X"}

\* str.lower() of a line.
LowerLine(line) == IF line = "Abc" THEN "abc" ELSE line

LowerEntry(entry) == [n \in 1..Len(entry) |-> LowerLine(entry[n])]

\* _normalize_text: " ".join(text.split()); the lines have no inner blanks, so
\* the words are the lines.  CompactLen is len(compact).
CompactLen(entry) ==
    IF entry = <<>> THEN 0
    ELSE IF Len(entry) = 1 /\ entry[1] \in {"a", "]"} THEN 1
    ELSE 2

HasNoise(entry) == \E n \in 1..Len(entry) : entry[n] = "noise"

\* _filter_content_entries: entries that are empty, one character long, noisy
\* or whose lower-cased compact form was seen before are dropped.
RECURSIVE FilterLoop(_, _, _)
FilterLoop(entries, seen, cleaned) ==
    IF entries = <<>> THEN cleaned
    ELSE LET entry == Head(entries)
             key == LowerEntry(entry)
         IN  IF \/ CompactLen(entry) <= 1
                \/ HasNoise(entry)
                \/ key \in seen
             THEN FilterLoop(Tail(entries), seen, cleaned)
             ELSE FilterLoop(Tail(entries), seen \cup {key}, Append(cleaned, entry))

FilterContentEntries(entries) == FilterLoop(entries, {}, <<>>)

HasJsonMarker(line) == line \in {"json", "json[", "json]"}

\* line.count("[") - line.count("]")
BracketBalance(line) ==
    IF line \in {"json[", "["} THEN 1 ELSE IF line \in {"]", "json]"} THEN 0 - 1 ELSE 0

\* The loop of _strip_json_blocks with a range that ends only where the depth
\* falls below 0.
RECURSIVE StripLoopUntilNegative(_, _, _, _)
StripLoopUntilNegative(lines, skipping, depth, cleaned) ==
    IF lines = <<>> THEN cleaned
    ELSE LET line == Head(lines) IN
         IF skipping
         THEN StripLoopUntilNegative(Tail(lines), depth + BracketBalance(line) >= 0,
                                     depth + BracketBalance(line), cleaned)
         ELSE IF HasJsonMarker(line)
         THEN StripLoopUntilNegative(Tail(lines), BracketBalance(line) > 0,
                                     BracketBalance(line), cleaned)
         ELSE StripLoopUntilNegative(Tail(lines), FALSE, depth, Append(cleaned, line))

\* _strip_json_blocks(text, markers): marker lines are dropped, and after a
\* marker line with open brackets every line until the brackets close.
RECURSIVE StripLoop(_, _, _, _)
StripLoop(lines, skipping, depth, cleaned) ==
    IF lines = <<>> THEN cleaned
    ELSE LET line == Head(lines) IN
         IF skipping
         THEN StripLoop(Tail(lines), depth + BracketBalance(line) > 0,
                        depth + BracketBalance(line), cleaned)
         ELSE IF HasJsonMarker(line)
         THEN StripLoop(Tail(lines), BracketBalance(line) > 0,
                        BracketBalance(line), cleaned)
         ELSE StripLoop(Tail(lines), FALSE, depth, Append(cleaned, line))

StripJsonBlocks(entry) == StripLoop(entry, FALSE, 0, <<>>)

\* The biligame post-filter of a section's content: every entry is stripped of
\* its JSON blocks and kept when something is left.
RECURSIVE PostFilter(_)
PostFilter(entries) ==
    IF entries = <<>> THEN <<>>
    ELSE LET cleaned == StripJsonBlocks(Head(entries)) IN
         IF cleaned # <<>> THEN <<cleaned>> \o PostFilter(Tail(entries))
         ELSE PostFilter(Tail(entries))

IntroSection == [heading |-> <<"intro">>, content |-> <<>>, tables |-> 0]

\* `if current["content"] or current["tables"]:` filter the content and
\* append the section.
CloseSection(sections, current) ==
    IF current.content # <<>> \/ current.tables > 0
    THEN Append(sections, [current EXCEPT !.content = FilterContentEntries(@)])
    ELSE sections

\* The loop of _extract_mediawiki_structured over the collected blocks.
RECURSIVE BlocksLoop(_, _, _)
BlocksLoop(elements, current, sections) ==
    IF elements = <<>> THEN CloseSection(sections, current)
    ELSE LET el == Head(elements) IN
         IF el.kind = "heading"
         THEN BlocksLoop(Tail(elements),
                         [heading |-> IF el.text = <<>> THEN <<"section">> ELSE el.text,
                          content |-> <<>>, tables |-> 0],
                         CloseSection(sections, current))
         ELSE IF el.kind = "table"
         THEN BlocksLoop(Tail(elements),
                         IF el.rows THEN [current EXCEPT !.tables = @ + 1] ELSE current,
                         sections)
         ELSE BlocksLoop(Tail(elements),
                         IF el.text # <<>>
                         THEN [current EXCEPT !.content = Append(@, el.text)]
                         ELSE current,
                         sections)

\* The `sections` of _extract_mediawiki_structured(html, source_url=...).
StructuredSections(elements, url) ==
    LET sections == BlocksLoop(elements, IntroSection, <<>>) IN
    IF IsBiligameUmamusume(url)
    THEN [n \in 1..Len(sections) |->
             [sections[n] EXCEPT !.content = PostFilter(@)]]
    ELSE sections

StrInit ==
    /\ s_pc = "input"
    /\ s_url \in SourceUrls
    /\ s_elements \in UNION {[1..n -> Elements] : n \in 0..MaxElements}
    /\ s_sections = <<>>

\* payload = _extract_mediawiki_structured(html_snapshot, source_url=...)
StrExtract ==
    /\ s_pc = "input"
    /\ s_sections' = StructuredSections(s_elements, s_url)
    /\ s_pc' = "extracted"
    /\ UNCHANGED <<s_url, s_elements>>
    /\ UNCHANGED nonStrVars

StrNext == StrExtract

(***************************************************************************)
(*   The shared config: Config (config.py), google_search (web/search.py), *)
(*   main (cli.py)                                                         *)
(***************************************************************************)
\* Attributes of the config object: dataclass fields, and methods of Config.
ConfigFields == {"user_agent", "http_proxy", "https_proxy", "google_api_key",
                 "google_cse_id"}
ConfigMethods == {"proxy_url", "validate_web_tools", "apply_overrides"}

BoundMethod == "<bound method>"

\* The config objects a call can find: Config.from_env() for some environment.
Configs ==
    {[name \in ConfigFields \cup ConfigMethods |->
        CASE name = "user_agent" -> "UA"
          [] name = "google_api_key" -> key
          [] name = "google_cse_id" -> cse
          [] name = "http_proxy" -> proxy
          [] name = "https_proxy" -> "none"
          [] OTHER -> BoundMethod] :
     key \in {"", "K0"}, cse \in {"", "C0"},
     proxy \in {"none", "http://h:1", "socks5://h:1"}}

\* validate_web_tools: the names it lists as missing.
MissingWebToolsKeyOnly(cfg) ==
    IF cfg["google_api_key"] = "" THEN {"GOOGLE_API_KEY"} ELSE {}
MissingWebTools(cfg) ==
    (IF cfg["google_api_key"] = "" THEN {"GOOGLE_API_KEY"} ELSE {})
    \cup (IF cfg["google_cse_id"] = "" THEN {"GOOGLE_CSE_ID"} ELSE {})

\* _build_http: None without a proxy, ValueError for a proxy that does not
\* start with http://, else an Http with ProxyInfo.
BuildHttp(cfg) ==
    LET proxy == IF cfg["http_proxy"] # "none" THEN cfg["http_proxy"]
                 ELSE cfg["https_proxy"]
    IN  IF proxy = "none" THEN "no_proxy"
        ELSE IF proxy = "http://h:1" THEN "proxy" ELSE "ValueError"

\* apply_overrides: `if hasattr(self, key): setattr(self, key, value)` for
\* every key of the overrides; hasattr holds for fields and for methods.
ApplyOverrides(cfg, overrides) ==
    [name \in DOMAIN cfg |->
        IF name \in DOMAIN overrides THEN overrides[name] ELSE cfg[name]]

\* `if args.google_api_key:` / `if args.google_cse_id:` build the overrides of
\* main; "none" is the default of an option that was not given.
Truthy(value) == value \notin {"none", ""}

MainOverrides(call) ==
    [name \in {n \in {"google_api_key", "google_cse_id"} :
                 Truthy(IF n = "google_api_key" THEN call.apiKey ELSE call.cseId)}
       |-> IF name = "google_api_key" THEN call.apiKey ELSE call.cseId]

CfgCalls ==
    [fn : {"google_search", "google_search_urls"}, apiKey : {"none"},
     cseId : {"none"}, key : {"none"}]
    \cup [fn : {"main"}, apiKey : {"none", "", "K1"}, cseId : {"none", "", "C1"},
          key : {"none"}]
    \cup [fn : {"apply_overrides"}, apiKey : {"none"}, cseId : {"none"},
          key : {"google_api_key", "proxy_url", "verbose"}]

NoCfgOut == [kind |-> "none", value |-> "none"]

CfgInit ==
    /\ g_pc = "start"
    /\ g_call \in CfgCalls
    /\ g_cfg \in Configs
    /\ g_cfg0 = g_cfg
    /\ g_trace = <<>>
    /\ g_out = NoCfgOut

CfgIdle ==
    /\ g_pc = "off"
    /\ g_call = [fn |-> "main", apiKey |-> "none", cseId |-> "none", key |-> "none"]
    /\ g_cfg = [name \in ConfigFields \cup ConfigMethods |-> "none"]
    /\ g_cfg0 = g_cfg
    /\ g_trace = <<>>
    /\ g_out = NoCfgOut

CfgRaise(exc) ==
    /\ g_pc' = "raised"
    /\ g_out' = [kind |-> "raised", value |-> exc]

\* google_search, first statement: config.validate_web_tools() raises
\* EnvironmentError when a credential is missing.
CfgValidate ==
    /\ g_pc = "start"
    /\ g_call.fn \in {"google_search", "google_search_urls"}
    /\ IF MissingWebTools(g_cfg) # {}
       THEN /\ CfgRaise("EnvironmentError")
            /\ UNCHANGED g_trace
       ELSE /\ g_pc' = "http"
            /\ g_trace' = Append(g_trace, "validated")
            /\ UNCHANGED g_out
    /\ UNCHANGED <<g_call, g_cfg, g_cfg0>>
    /\ UNCHANGED nonCfgVars

\* http = _build_http()
CfgBuildHttp ==
    /\ g_pc = "http"
    /\ g_trace' = Append(g_trace, "_build_http")
    /\ IF BuildHttp(g_cfg) = "ValueError"
       THEN CfgRaise("ValueError")
       ELSE /\ g_pc' = "service"
            /\ UNCHANGED g_out
    /\ UNCHANGED <<g_call, g_cfg, g_cfg0>>
    /\ UNCHANGED nonCfgVars

\* service = build("customsearch", "v1", developerKey=..., http=http)
CfgBuildService ==
    /\ g_pc = "service"
    /\ g_trace' = Append(g_trace, "build")
    /\ \/ CfgRaise("HttpError")
       \/ /\ g_pc' = "execute"
          /\ UNCHANGED g_out
    /\ UNCHANGED <<g_call, g_cfg, g_cfg0>>
    /\ UNCHANGED nonCfgVars

\* res = service.cse().list(...).execute(), then _extract_formatted_urls of
\* its items; google_search_urls raises ValueError for an empty list.
CfgExecute ==
    /\ g_pc = "execute"
    /\ g_trace' = Append(g_trace, "execute")
    /\ \/ CfgRaise("HttpError")
       \/ \E urls \in 0..MaxResults :
            IF urls = 0 /\ g_call.fn = "google_search_urls"
            THEN CfgRaise("ValueError")
            ELSE /\ g_pc' = "done"
                 /\ g_out' = [kind |-> "returned", value |-> urls]
    /\ UNCHANGED <<g_call, g_cfg, g_cfg0>>
    /\ UNCHANGED nonCfgVars

\* main: load_dotenv, parse_args, the overrides, `if overrides:
\* config.apply_overrides(**overrides)`.
CfgMain ==
    /\ g_pc = "start"
    /\ g_call.fn = "main"
    /\ LET overrides == MainOverrides(g_call) IN
       IF DOMAIN overrides # {}
       THEN /\ g_cfg' = ApplyOverrides(g_cfg, overrides)
            /\ g_trace' = Append(g_trace, "apply_overrides")
       ELSE UNCHANGED <<g_cfg, g_trace>>
    /\ g_pc' = "run"
    /\ UNCHANGED <<g_call, g_cfg0, g_out>>
    /\ UNCHANGED nonCfgVars

\* asyncio.run(_run(args)): _run is started and ends or raises.
CfgRun ==
    /\ g_pc = "run"
    /\ g_trace' = Append(g_trace, "_run")
    /\ \/ CfgRaise("RuntimeError")
       \/ /\ g_pc' = "done"
          /\ g_out' = [kind |-> "returned", value |-> "none"]
    /\ UNCHANGED <<g_call, g_cfg, g_cfg0>>
    /\ UNCHANGED nonCfgVars

\* config.apply_overrides(key=value) called by itself.
CfgApplyOverrides ==
    /\ g_pc = "start"
    /\ g_call.fn = "apply_overrides"
    /\ g_cfg' = ApplyOverrides(g_cfg, [name \in {g_call.key} |-> "V"])
    /\ g_trace' = Append(g_trace, "apply_overrides")
    /\ g_pc' = "done"
    /\ g_out' = [kind |-> "returned", value |-> "none"]
    /\ UNCHANGED <<g_call, g_cfg0>>
    /\ UNCHANGED nonCfgVars

CfgNext ==
    \/ CfgValidate
    \/ CfgBuildHttp
    \/ CfgBuildService
    \/ CfgExecute
    \/ CfgMain
    \/ CfgRun
    \/ CfgApplyOverrides

(***************************************************************************)
(*   Artifact names and the files of concurrent visual requests:           *)
(*   _sanitize_filename, _slug_from_url, _resolve_output_dir,              *)
(*   _crawl_page_visual, crawl_moegirl_page_visual_markitdown              *)
(***************************************************************************)
\* A url is [netloc, path, title]: netloc a sequence of symbols, path the
\* sequence of its segments, title the value of the `title` query parameter
\* (<<>> when there is none).  Symbols outside [A-Za-z0-9._-] are "U1", "U2"
\* (two CJK characters); "%U1" is the percent-encoded form of "U1".
NonFilenameSymbols == {"U1", "U2", "%U1"}

IndexPhp == <<"index.php">>

\* unquote(...)
Unquote(value) == [n \in 1..Len(value) |-> IF value[n] = "%U1" THEN "U1" ELSE value[n]]

\* re.sub(r"[^A-Za-z0-9._-]+", "_", value)
RECURSIVE SubRuns(_, _)
SubRuns(value, inRun) ==
    IF value = <<>> THEN <<>>
    ELSE IF Head(value) \in NonFilenameSymbols
         THEN (IF inRun THEN <<>> ELSE <<"_">>) \o SubRuns(Tail(value), TRUE)
         ELSE <<Head(value)>> \o SubRuns(Tail(value), FALSE)

\* .strip("._")
RECURSIVE StripDots(_)
StripDots(value) ==
    IF value = <<>> THEN <<>>
    ELSE IF Head(value) \in {".", "_"} THEN StripDots(Tail(value))
    ELSE IF value[Len(value)] \in {".", "_"} THEN StripDots(SubSeq(value, 1, Len(value) - 1))
    ELSE value

\* _sanitize_filename: `cleaned or "page"`
SanitizeFilename(value) ==
    LET cleaned == StripDots(SubRuns(value, FALSE))
    IN  IF cleaned = <<>> THEN <<"page">> ELSE cleaned

\* _slug_from_url
SlugFromUrl(url) ==
    LET domain == SanitizeFilename(url.netloc)
        last == url.path[Len(url.path)]
        queryTitle == IF last = IndexPhp THEN url.title ELSE <<>>
        title == IF queryTitle # <<>> THEN queryTitle ELSE Unquote(last)
        titleSlug == SanitizeFilename(IF title # <<>> THEN title ELSE url.netloc)
    IN  domain \o <<"_">> \o titleSlug

\* UmamusumeCrawler._get_file_path: md5 of the url, one name per url.  No
\* caller of the visual capture uses it.
GetFilePath(workDir, url, ext) == <<workDir, <<"md5", url>>, ext>>

\* The page a url names: the host, the decoded path and the title parameter.
PageOf(url) ==
    [netloc |-> url.netloc,
     path |-> [n \in 1..Len(url.path) |-> Unquote(url.path[n])],
     title |-> IF url.path[Len(url.path)] = IndexPhp THEN url.title ELSE <<>>]

Netlocs == {<<"m">>, <<"w">>}
Segments == {<<"a">>, <<"U1">>, <<"U2">>, <<"%U1">>}
Urls ==
    [netloc : Netlocs, path : {<<seg>> : seg \in Segments}, title : {<<>>}]
    \cup [netloc : Netlocs, path : {<<<<"d">>, seg>> : seg \in Segments}, title : {<<>>}]
    \cup [netloc : Netlocs, path : {<<IndexPhp>>}, title : {<<>>, <<"a">>, <<"U1">>}]

Requests == {1, 2}

\* The output_dir argument: a directory of the caller ("D", as the CLI's
\* --visual-dir), or None, for which _resolve_output_dir makes a fresh
\* temporary directory owned by the request.
ArtRequests == [url : Urls, outputDir : {"D", "None"}]

\* tempfile.mkdtemp(prefix="umamusume_crawl_"): a new name for every call.
TempDir(r) == IF r = 1 THEN "umamusume_crawl_1" ELSE "umamusume_crawl_2"

ResolvedDir(r, req) == IF req.outputDir = "None" THEN TempDir(r) ELSE req.outputDir

\* png_path / pdf_path of _crawl_page_visual
ArtifactPath(dir, url, ext) == <<dir, SlugFromUrl(url), ext>>

Touch(r, op, path) == [req |-> r, op |-> op, path |-> path]

ArtInit ==
    /\ q_pc = [r \in Requests |-> "start"]
    /\ q_req \in [Requests -> ArtRequests]
    /\ q_dir = [r \in Requests |-> "none"]
    /\ q_fs = {}
    /\ q_touch = {}
    /\ q_text = [r \in Requests |-> "none"]

ArtIdle ==
    /\ q_pc = [r \in Requests |-> "off"]
    /\ q_req = [r \in Requests |->
                   [url |-> [netloc |-> <<"m">>, path |-> <<<<"a">>>>, title |-> <<>>],
                    outputDir |-> "None"]]
    /\ q_dir = [r \in Requests |-> "none"]
    /\ q_fs = {}
    /\ q_touch = {}
    /\ q_text = [r \in Requests |-> "none"]

\* The file at path, as a set of at most one [path, by] record.
FileAt(path) == {f \in q_fs : f.path = path}

WriteFile(fs, r, path) == {f \in fs : f.path # path} \cup {[path |-> path, by |-> r]}

\* _resolve_output_dir of the markitdown wrapper.
ArtResolve(r) ==
    /\ q_pc[r] = "start"
    /\ q_dir' = [q_dir EXCEPT ![r] = ResolvedDir(r, q_req[r])]
    /\ q_pc' = [q_pc EXCEPT ![r] = "capture"]
    /\ UNCHANGED <<q_req, q_fs, q_touch, q_text>>
    /\ UNCHANGED nonArtVars

\* _crawl_page_visual: the screenshot and the pdf the browser returned are
\* saved as <slug>.png and <slug>.pdf in the output directory; either can be
\* missing from the result.
ArtCapture(r) ==
    /\ q_pc[r] = "capture"
    /\ \E pngSaved, pdfSaved \in BOOLEAN :
         LET png == ArtifactPath(q_dir[r], q_req[r].url, "png")
             pdf == ArtifactPath(q_dir[r], q_req[r].url, "pdf")
             fs1 == IF pngSaved THEN WriteFile(q_fs, r, png) ELSE q_fs
             fs2 == IF pdfSaved THEN WriteFile(fs1, r, pdf) ELSE fs1
         IN  /\ q_fs' = fs2
             /\ q_touch' = q_touch
                   \cup (IF pngSaved THEN {Touch(r, "write", png)} ELSE {})
                   \cup (IF pdfSaved THEN {Touch(r, "write", pdf)} ELSE {})
    /\ q_pc' = [q_pc EXCEPT ![r] = "convert"]
    /\ UNCHANGED <<q_req, q_dir, q_text>>
    /\ UNCHANGED nonArtVars

\* _capture_and_convert with capture_pdf: the pdf_path of the capture, else
\* `<slug>.pdf` of the output directory if it exists, is converted.
ArtConvert(r) ==
    /\ q_pc[r] = "convert"
    /\ LET pdf == ArtifactPath(q_dir[r], q_req[r].url, "pdf") IN
       IF FileAt(pdf) # {}
       THEN /\ q_text' = [q_text EXCEPT ![r] = (CHOOSE f \in FileAt(pdf) : TRUE).by]
            /\ q_touch' = q_touch \cup {Touch(r, "read", pdf)}
       ELSE /\ q_text' = [q_text EXCEPT ![r] = "RuntimeError"]
            /\ UNCHANGED q_touch
    /\ q_pc' = [q_pc EXCEPT ![r] = "cleanup"]
    /\ UNCHANGED <<q_req, q_dir, q_fs>>
    /\ UNCHANGED nonArtVars

\* finally: temp_workspace.cleanup() removes the directory the request owns.
ArtCleanup(r) ==
    /\ q_pc[r] = "cleanup"
    /\ IF q_req[r].outputDir = "None"
       THEN /\ q_fs' = {f \in q_fs : f.path[1] # q_dir[r]}
            /\ q_touch' = q_touch \cup {Touch(r, "remove", f.path) : f \in {g \in q_fs : g.path[1] = q_dir[r]}}
       ELSE UNCHANGED <<q_fs, q_touch>>
    /\ q_pc' = [q_pc EXCEPT ![r] = "done"]
    /\ UNCHANGED <<q_req, q_dir, q_text>>
    /\ UNCHANGED nonArtVars

ArtNext ==
    \/ \E r \in Requests : ArtResolve(r)
    \/ \E r \in Requests : ArtCapture(r)
    \/ \E r \in Requests : ArtConvert(r)
    \/ \E r \in Requests : ArtCleanup(r)

(***************************************************************************)
(*   The attempt timeouts of _crawl_page_visual.run_capture                *)
(***************************************************************************)
MaxTimeout == 70

Min(a, b) == IF a <= b THEN a ELSE b

\* attempt_timeout = timeout_s; if timeout_s and timeout_s > 0: 60.0 on the
\* first anti_bot attempt, min(timeout_s, 30.0) on a later one, and
\* min(timeout_s, 25.0) without anti_bot.
AttemptTimeout(timeout, antiBot, attempt) ==
    IF timeout > 0
    THEN IF antiBot
         THEN IF attempt = 0 THEN 60 ELSE Min(timeout, 30)
         ELSE Min(timeout, 25)
    ELSE timeout

TmoInit ==
    /\ t_pc = "attempt"
    /\ t_timeout \in 0..MaxTimeout
    /\ t_antiBot \in BOOLEAN
    /\ t_attempt = 0
    /\ t_used = <<>>

TmoIdle ==
    /\ t_pc = "off"
    /\ t_timeout = 0
    /\ t_antiBot = FALSE
    /\ t_attempt = 0
    /\ t_used = <<>>

\* One pass of `for attempt in range(max_retries)`: the navigation is awaited
\* under attempt_timeout; it ends the loop (break, or the last attempt
\* re-raising), or fails with another attempt left.
TmoAttempt ==
    /\ t_pc = "attempt"
    /\ t_used' = Append(t_used, AttemptTimeout(t_timeout, t_antiBot, t_attempt))
    /\ \/ /\ t_pc' = "done"
          /\ UNCHANGED t_attempt
       \/ /\ RetryAllowed(t_attempt, MaxRetries(t_antiBot))
          /\ t_attempt' = t_attempt + 1
          /\ UNCHANGED t_pc
    /\ UNCHANGED <<t_timeout, t_antiBot>>
    /\ UNCHANGED nonTmoVars

TmoNext == TmoAttempt

(***************************************************************************)
(*   parse_wiki_page called again on the same wikitext                     *)
(***************************************************************************)
MaxOtherParses == 2

\* A second info block, with another parameter.
OtherInfoboxMarkup ==
    <<"{", "{", Marker, Newline, "|", "name_ja", "=", "other", Newline,
      "}", "}", Newline, "tail">>

ReparseTexts == LineTexts \cup {InlineInfoboxMarkup, MultiLineInfoboxMarkup,
                                OtherInfoboxMarkup}

ReparseInit ==
    /\ r_pc = "first"
    /\ r_text \in ReparseTexts
    /\ r_first = NoPage
    /\ r_again = NoPage
    /\ r_others = 0
    /\ r_left = {}

ReparseIdle ==
    /\ r_pc = "off"
    /\ r_text = <<>>
    /\ r_first = NoPage
    /\ r_again = NoPage
    /\ r_others = 0
    /\ r_left = {}

\* parse_wiki_page(wikitext, site=site), the first time.  The site hint does
\* not change the result: the `site == "biligame"` branch of _clean_template
\* returns what the default branch returns.
ReparseFirst ==
    /\ r_pc = "first"
    /\ r_first' = ParseWikiPage(r_text)
    /\ r_left' = ParseWikiPage(r_text).infobox
    /\ r_pc' = "between"
    /\ UNCHANGED <<r_text, r_again, r_others>>
    /\ UNCHANGED nonReparseVars

\* parse_wiki_page of some other wikitext in between.
ReparseOther ==
    /\ r_pc = "between"
    /\ r_others < MaxOtherParses
    /\ \E other \in {InlineInfoboxMarkup, MultiLineInfoboxMarkup, OtherInfoboxMarkup,
                     <<"x">>} :
         r_left' = ParseWikiPage(other).infobox
    /\ r_others' = r_others + 1
    /\ UNCHANGED <<r_pc, r_text, r_first, r_again>>
    /\ UNCHANGED nonReparseVars

\* parse_wiki_page(wikitext, site=site), the second time.
ReparseAgain ==
    /\ r_pc = "between"
    /\ r_again' = ParseWikiPage(r_text)
    /\ r_left' = ParseWikiPage(r_text).infobox
    /\ r_pc' = "done"
    /\ UNCHANGED <<r_text, r_first, r_others>>
    /\ UNCHANGED nonReparseVars

ReparseNext == ReparseFirst \/ ReparseOther \/ ReparseAgain

(***************************************************************************)
(*   The site post-filter: _strip_json_blocks, _post_process_content       *)
(*   (web/crawler.py)                                                      *)
(***************************************************************************)
\* The lines of the contents: a line of prose, an empty line, a line with a
\* marker and no bracket, a marker line that opens an array, a closing and an
\* opening bracket, and a marker line that closes a bracket.
ContentLines == {"a", "", "json", "json[", "]", "[", "json]"}

\* A line as text and a line of text as the line: the empty line has no symbol.
LineText(line) == IF line = "" THEN <<>> ELSE <<line>>
TextLine(text) == IF text = <<>> THEN "" ELSE text[1]

\* Contents of up to MaxContentLines lines, with or without a final newline.
ContentTexts ==
    {Join([n \in 1..Len(ls) |-> LineText(ls[n])], Newline) \o final :
        ls \in UNION {[1..n -> ContentLines] : n \in 0..MaxContentLines},
        final \in {<<>>, <<Newline>>}}

\* lines = text.splitlines()
ContentSplit(text) ==
    LET lines == SplitLines(text)
    IN  [n \in 1..Len(lines) |-> TextLine(lines[n])]

\* "\n".join(cleaned)
ContentJoin(lines) == Join([n \in 1..Len(lines) |-> LineText(lines[n])], Newline)

\* _strip_json_blocks(text, markers) from text to text
StripJsonText(text) == ContentJoin(StripJsonBlocks(ContentSplit(text)))

\* _post_process_content(url, content)
PostProcessContent(url, content) ==
    IF url = "https://wiki.biligame.com/umamusume/X" THEN StripJsonText(content)
    ELSE content

PostInit ==
    /\ j_pc = "input"
    /\ j_url \in SourceUrls
    /\ j_text \in ContentTexts
    /\ j_once = <<>>
    /\ j_twice = <<>>

PostIdle ==
    /\ j_pc = "off"
    /\ j_url = "https://mzh.moegirl.org.cn/X"
    /\ j_text = <<>>
    /\ j_once = <<>>
    /\ j_twice = <<>>

\* _post_process_content(url, content)
PostOnce ==
    /\ j_pc = "input"
    /\ j_once' = PostProcessContent(j_url, j_text)
    /\ j_pc' = "once"
    /\ UNCHANGED <<j_url, j_text, j_twice>>
    /\ UNCHANGED nonPostVars

\* _post_process_content(url, _post_process_content(url, content))
PostTwice ==
    /\ j_pc = "once"
    /\ j_twice' = PostProcessContent(j_url, j_once)
    /\ j_pc' = "twice"
    /\ UNCHANGED <<j_url, j_text, j_once>>
    /\ UNCHANGED nonPostVars

PostNext == PostOnce \/ PostTwice

(***************************************************************************)
(*   Workspaces: UmamusumeCrawler, _resolve_output_dir and the cleanup of  *)
(*   the crawl operations (web/crawler.py)                                 *)
(***************************************************************************)
\* The directory the caller names, and the temporary directories the
\* caller's crawler and the crawl operation's crawler make.
CallerDir == "D"
CallerTemp == "umamusume_crawl_caller"
OperationTemp == "umamusume_crawl_operation"

NoCrawler == [work_dir |-> "None", is_temp |-> FALSE, keep_files |-> FALSE,
              temp_dir |-> FALSE]

\* UmamusumeCrawler.__init__(workspace, keep_files): a given workspace is not
\* temporary; without one the crawler makes a temporary directory, with
\* tempfile.mkdtemp when keep_files and as a TemporaryDirectory otherwise.
NewUmamusumeCrawler(workspace, keepFiles, tempName) ==
    IF workspace # "None"
    THEN [work_dir |-> workspace, is_temp |-> FALSE, keep_files |-> keepFiles,
          temp_dir |-> FALSE]
    ELSE [work_dir |-> tempName, is_temp |-> TRUE, keep_files |-> keepFiles,
          temp_dir |-> ~keepFiles]

\* cleanup() that removes the work directory whatever the crawler is.
CrawlerCleanupAlways(crawler, fs) == fs \ {crawler.work_dir}

\* UmamusumeCrawler.cleanup(): nothing unless is_temp and not keep_files.
CrawlerCleanup(crawler, fs) ==
    IF ~crawler.is_temp \/ crawler.keep_files THEN fs ELSE fs \ {crawler.work_dir}

\* The directory arguments of a crawl operation: output_dir (None or the
\* caller's directory), workspace (None, the caller's directory as a path, or
\* the caller's UmamusumeCrawler), keep_files, and require_output_dir (True
\* in the capture entry points, False in the markitdown entry points).
WsRequests ==
    [output_dir : {"None", CallerDir}, workspace : {"None", "path", "crawler"},
     keep_files : BOOLEAN, require_output_dir : BOOLEAN]

\* _resolve_output_dir(output_dir, workspace=, keep_files=, require_output_dir=):
\* the directory, the crawler it made (NoCrawler for None), and whether it
\* raised ValueError.
ResolveDir(req, caller) ==
    IF req.output_dir # "None"
    THEN [dir |-> req.output_dir, crawler |-> NoCrawler, raised |-> FALSE]
    ELSE IF req.workspace = "crawler"
    THEN [dir |-> caller.work_dir, crawler |-> NoCrawler, raised |-> FALSE]
    ELSE IF req.workspace = "None" /\ req.require_output_dir
    THEN [dir |-> "None", crawler |-> NoCrawler, raised |-> TRUE]
    ELSE LET crawler == NewUmamusumeCrawler(IF req.workspace = "path" THEN CallerDir
                                            ELSE "None",
                                            req.keep_files, OperationTemp)
         IN  [dir |-> crawler.work_dir, crawler |-> crawler, raised |-> FALSE]

WsInit ==
    /\ w_pc = "start"
    /\ w_req \in WsRequests
    /\ w_fs \in SUBSET {CallerDir}
    /\ w_caller = NoCrawler
    /\ w_temp = NoCrawler

WsIdle ==
    /\ w_pc = "off"
    /\ w_req = [output_dir |-> "None", workspace |-> "None", keep_files |-> FALSE,
                require_output_dir |-> FALSE]
    /\ w_fs = {}
    /\ w_caller = NoCrawler
    /\ w_temp = NoCrawler

\* The caller makes the UmamusumeCrawler it passes as workspace: on its own
\* directory or on a temporary one.
WsConstruct ==
    /\ w_pc = "start"
    /\ w_req.workspace = "crawler"
    /\ \E workspace \in {"None", CallerDir}, keepFiles \in BOOLEAN :
          /\ w_caller' = NewUmamusumeCrawler(workspace, keepFiles, CallerTemp)
          /\ w_fs' = w_fs \cup {w_caller'.work_dir}
    /\ w_pc' = "constructed"
    /\ UNCHANGED <<w_req, w_temp>>
    /\ UNCHANGED nonWsVars

\* The crawl operation resolves its directory: _resolve_output_dir makes the
\* directory (mkdir(parents=True, exist_ok=True)) or raises ValueError.
WsResolve ==
    /\ \/ w_pc = "start" /\ w_req.workspace # "crawler"
       \/ w_pc = "constructed"
    /\ LET resolved == ResolveDir(w_req, w_caller) IN
       /\ w_pc' = IF resolved.raised THEN "raised" ELSE "resolved"
       /\ w_fs' = IF resolved.raised THEN w_fs ELSE w_fs \cup {resolved.dir}
       /\ w_temp' = resolved.crawler
    /\ UNCHANGED <<w_req, w_caller>>
    /\ UNCHANGED nonWsVars

\* The crawl operation ends.  The markitdown entry points run
\* `if temp_workspace is not None: temp_workspace.cleanup()` in a finally,
\* which the generic and the biligame entry point enter only once the capture
\* has returned; the capture entry points drop the crawler of
\* _resolve_output_dir.
WsReturn ==
    /\ w_pc = "resolved"
    /\ \E reachedFinally \in BOOLEAN :
          w_fs' = IF ~w_req.require_output_dir /\ w_temp # NoCrawler /\ reachedFinally
                  THEN CrawlerCleanup(w_temp, w_fs) ELSE w_fs
    /\ w_pc' = "returned"
    /\ UNCHANGED <<w_req, w_caller, w_temp>>
    /\ UNCHANGED nonWsVars

\* The caller calls cleanup() of its own crawler, or leaves its `with` block
\* (__exit__ calls cleanup()).
WsCleanup ==
    /\ w_pc \in {"constructed", "returned"}
    /\ w_caller # NoCrawler
    /\ w_fs' = CrawlerCleanup(w_caller, w_fs)
    /\ w_pc' = "cleaned"
    /\ UNCHANGED <<w_req, w_caller, w_temp>>
    /\ UNCHANGED nonWsVars

\* The TemporaryDirectory of a crawler nothing refers to any more is
\* finalized and removes its directory.
WsFinalizer ==
    /\ w_pc \in {"returned", "cleaned"}
    /\ w_temp.temp_dir
    /\ w_temp.work_dir \in w_fs
    /\ w_fs' = w_fs \ {w_temp.work_dir}
    /\ UNCHANGED <<w_pc, w_req, w_caller, w_temp>>
    /\ UNCHANGED nonWsVars

WsNext == WsConstruct \/ WsResolve \/ WsReturn \/ WsCleanup \/ WsFinalizer

(***************************************************************************)
(*                             Specifications                              *)
(***************************************************************************)
InitExpand == ExpInit /\ McpIdle /\ CliIdle /\ CrawlIdle /\ CapIdle /\ ParseIdle /\ StrIdle /\ CfgIdle /\ ArtIdle /\ TmoIdle /\ ReparseIdle /\ PostIdle /\ WsIdle
SpecExpand == InitExpand /\ [][ExpNext]_vars
\* The event loop runs the coroutine of the expansion whenever it can take a
\* step: every await of a fetch returns or raises.
SpecExpandFair == SpecExpand /\ WF_vars(ExpNext)

InitExpandWide == ExpInitWide /\ McpIdle /\ CliIdle /\ CrawlIdle /\ CapIdle /\ ParseIdle /\ StrIdle /\ CfgIdle /\ ArtIdle /\ TmoIdle /\ ReparseIdle /\ PostIdle /\ WsIdle
SpecExpandWide == InitExpandWide /\ [][ExpNext]_vars

InitMcp == McpInit /\ ExpIdle /\ CliIdle /\ CrawlIdle /\ CapIdle /\ ParseIdle /\ StrIdle /\ CfgIdle /\ ArtIdle /\ TmoIdle /\ ReparseIdle /\ PostIdle /\ WsIdle
SpecMcp == InitMcp /\ [][McpNext]_vars

InitCli == CliInit /\ ExpIdle /\ McpIdle /\ CrawlIdle /\ CapIdle /\ ParseIdle /\ StrIdle /\ CfgIdle /\ ArtIdle /\ TmoIdle /\ ReparseIdle /\ PostIdle /\ WsIdle
SpecCli == InitCli /\ [][CliNext]_vars

InitCrawl == CrawlInit /\ ExpIdle /\ McpIdle /\ CliIdle /\ CapIdle /\ ParseIdle /\ StrIdle /\ CfgIdle /\ ArtIdle /\ TmoIdle /\ ReparseIdle /\ PostIdle /\ WsIdle
SpecCrawl == InitCrawl /\ [][CrawlNext]_vars

InitCapture == CapInit /\ ExpIdle /\ McpIdle /\ CliIdle /\ CrawlIdle /\ ParseIdle /\ StrIdle /\ CfgIdle /\ ArtIdle /\ TmoIdle /\ ReparseIdle /\ PostIdle /\ WsIdle
SpecCapture == InitCapture /\ [][CapNext]_vars

InitParse == ParseInit /\ ExpIdle /\ McpIdle /\ CliIdle /\ CrawlIdle /\ CapIdle /\ StrIdle /\ CfgIdle /\ ArtIdle /\ TmoIdle /\ ReparseIdle /\ PostIdle /\ WsIdle
SpecParse == InitParse /\ [][ParseNext]_vars

InitStructured == StrInit /\ ExpIdle /\ McpIdle /\ CliIdle /\ CrawlIdle /\ CapIdle /\ ParseIdle /\ CfgIdle /\ ArtIdle /\ TmoIdle /\ ReparseIdle /\ PostIdle /\ WsIdle
SpecStructured == InitStructured /\ [][StrNext]_vars

InitConfig == CfgInit /\ ExpIdle /\ McpIdle /\ CliIdle /\ CrawlIdle /\ CapIdle /\ ParseIdle /\ StrIdle /\ ArtIdle /\ TmoIdle /\ ReparseIdle /\ PostIdle /\ WsIdle
SpecConfig == InitConfig /\ [][CfgNext]_vars

InitArtifacts == ArtInit /\ ExpIdle /\ McpIdle /\ CliIdle /\ CrawlIdle /\ CapIdle /\ ParseIdle /\ StrIdle /\ CfgIdle /\ TmoIdle /\ ReparseIdle /\ PostIdle /\ WsIdle
SpecArtifacts == InitArtifacts /\ [][ArtNext]_vars

InitTimeouts == TmoInit /\ ExpIdle /\ McpIdle /\ CliIdle /\ CrawlIdle /\ CapIdle /\ ParseIdle /\ StrIdle /\ CfgIdle /\ ArtIdle /\ ReparseIdle /\ PostIdle /\ WsIdle
SpecTimeouts == InitTimeouts /\ [][TmoNext]_vars

InitReparse == ReparseInit /\ ExpIdle /\ McpIdle /\ CliIdle /\ CrawlIdle /\ CapIdle /\ ParseIdle /\ StrIdle /\ CfgIdle /\ ArtIdle /\ TmoIdle /\ PostIdle /\ WsIdle
SpecReparse == InitReparse /\ [][ReparseNext]_vars

InitPost == PostInit /\ ExpIdle /\ McpIdle /\ CliIdle /\ CrawlIdle /\ CapIdle /\ ParseIdle /\ StrIdle /\ CfgIdle /\ ArtIdle /\ TmoIdle /\ ReparseIdle /\ WsIdle
SpecPost == InitPost /\ [][PostNext]_vars

InitWorkspace == WsInit /\ ExpIdle /\ McpIdle /\ CliIdle /\ CrawlIdle /\ CapIdle /\ ParseIdle /\ StrIdle /\ CfgIdle /\ ArtIdle /\ TmoIdle /\ ReparseIdle /\ PostIdle
SpecWorkspace == InitWorkspace /\ [][WsNext]_vars

(***************************************************************************)
(*                                 Claims                                  *)
(***************************************************************************)
\* C1: bounded expansion.  In every reachable state of the expansion the
\* visited set (the titles fetched so far) has at most max_pages entries,
\* whatever the transclusion graph, cycles included.
C1_BoundedExpansion == Cardinality(e_visited) <= e_maxPages

\* The budget is reached on a graph with a cycle back to the root while a
\* further title, referenced by the root, is left unfetched.
C1_Witness ==
    /\ e_pc = "done"
    /\ e_maxPages = 2
    /\ Cardinality(e_visited) = 2
    /\ \E t \in e_visited \ {"Root"} :
         \E i \in 1..Len(e_links[t]) : e_links[t][i] = "Root"
    /\ \E i \in 1..Len(e_links["Root"]) : e_links["Root"][i] \notin e_visited

\* C3: no MCP tool call raises; a crawl tool replies {status: success, result}
\* or {status: error, message}; a search tool replies {results}, or
\* {results, error} with an empty result list.
C3_ToolsReturnDescriptors ==
    /\ m_raised = "none"
    /\ m_pc # "raised"
    /\ m_pc = "replied" =>
         IF m_tool \in CrawlTools
         THEN \/ DOMAIN m_reply = {"status", "result"} /\ m_reply.status = "success"
              \/ DOMAIN m_reply = {"status", "message"} /\ m_reply.status = "error"
         ELSE \/ DOMAIN m_reply = {"results"}
              \/ DOMAIN m_reply = {"results", "error"} /\ m_reply.results = <<>>

\* A search tool fails on its second item, after one result was built, and
\* still replies with an error and no results.
C3_Witness ==
    /\ m_pc = "replied"
    /\ m_tool \in SearchTools
    /\ Len(m_built) = 1
    /\ "error" \in DOMAIN m_reply

\* C2: fallback ordering.  For a recognised wiki target whose API attempt
\* gives an empty markup while its rendered HTML is usable, the non-visual
\* request ends as a success in html mode.
C2_FallbackToHtml ==
    (/\ c_pc \in {"done", "raised"}
     /\ c_args.entry = "_run"
     /\ ~c_args.visual
     /\ ResolvedMode(c_args) \in {"biligame", "moegirl"}
     /\ c_env.api = "empty"
     /\ c_env.html = "usable")
    => (c_out.kind = "success" /\ c_out.mode = "html")

\* C4: a text crawl that found nothing usable does not end as a success
\* carrying empty text.
C4_NoEmptySuccess ==
    k_pc = "done" => ~(k_out.kind = "returned" /\ k_out.value = "empty")

\* C5: once the overall timeout has fired the request has ended with
\* TimeoutError surfaced to the caller, and no step taken afterwards makes a
\* navigation attempt, a backoff, a further pass or a headful retry.
C5_TimeoutEndsRequest ==
    /\ [](v_timedOut => /\ v_pc = "raised"
                        /\ v_out = [kind |-> "raised", value |-> "TimeoutError"])
    /\ [][v_timedOut => UNCHANGED <<v_pc, v_passLog, v_pass, v_attempt, v_capture,
                                    v_hist, v_out>>]_vars

\* The timeout fires in the first attempt of a headless moegirl request, where
\* both a retry in the loop and a headful retry were still open.
C5_Witness ==
    /\ v_timedOut
    /\ v_pc = "raised"
    /\ v_req.entry = "crawl_moegirl_page_visual_markitdown"
    /\ v_req.headless
    /\ v_passLog = [navs |-> 1, backoffs |-> 0, last |-> "cancelled", state |-> "cancelled"]
    /\ v_hist.headfulStarted = 0

\* C6: a pass of run_capture makes at most 2 navigation attempts for an
\* anti_bot target and exactly 1 otherwise; every backoff lies between two
\* consecutive attempts, so a finished pass has one backoff fewer than attempts.
C6_AttemptsAndBackoffs ==
    LET antiBot == CapParams(v_req.entry).antiBot IN
    /\ v_passLog.navs <= (IF antiBot THEN 2 ELSE 1)
    /\ v_passLog.backoffs <= v_passLog.navs
    /\ v_passLog.navs <= v_passLog.backoffs + 1
    /\ v_passLog.state \in {"ok", "failed"} =>
          /\ v_passLog.backoffs = v_passLog.navs - 1
          /\ ~antiBot => v_passLog.navs = 1

\* A pass of an anti_bot target that failed after two attempts and one backoff.
C6_Witness ==
    /\ CapParams(v_req.entry).antiBot
    /\ v_passLog.state = "failed"
    /\ v_passLog.navs = 2
    /\ v_passLog.backoffs = 1

\* C7 as stated: for every capture target, a pass that gave up on a
\* gateway-timeout response had retried the navigation once.
C7_GatewayRetryEveryTarget ==
    (v_passLog.state = "failed" /\ v_passLog.last = "gateway") => v_passLog.navs = 2

\* C7, amended: a gateway-timeout response is retried once for anti_bot targets
\* only; for the other targets the single attempt fails the pass.  A response
\* with the signature is never the one a pass saves.
C7_GatewayRetryAntiBotOnly ==
    LET antiBot == CapParams(v_req.entry).antiBot IN
    /\ (v_passLog.state = "failed" /\ v_passLog.last = "gateway") =>
          v_passLog.navs = (IF antiBot THEN 2 ELSE 1)
    /\ (v_passLog.state = "running" /\ v_passLog.last = "gateway") =>
          antiBot /\ v_passLog.navs = 1 /\ v_pc \in {"backoff", "attempt"}
    /\ v_passLog.state = "ok" => v_passLog.last = "result"

\* A target without anti_bot whose only attempt showed the signature.
C7_Witness ==
    /\ ~CapParams(v_req.entry).antiBot
    /\ v_passLog.state = "failed"
    /\ v_passLog.last = "gateway"
    /\ v_passLog.navs = 1

\* C8: a request started in headless mode starts the headful capture at most
\* once.
C8_OneHeadfulRetry ==
    v_req.headless => v_hist.headfulStarted <= 1

\* C9: when the headless capture raised and the headful retry raised too, the
\* call ends with an error.
C9_DoubleFailureSurfaced ==
    (/\ v_pc \in {"done", "raised"}
     /\ v_req.entry = "crawl_moegirl_page_visual_markitdown"
     /\ v_req.headless
     /\ Len(v_hist.captures) >= 2
     /\ v_hist.captures[1] = "failed"
     /\ v_hist.captures[Len(v_hist.captures)] = "failed")
    => v_out.kind = "raised"

\* C10: when the call is over, a workspace the request created without
\* keep_files is gone, and one created with keep_files is still there.
C10_TempWorkspaceCleaned ==
    (v_pc \in {"done", "raised"} /\ v_req.dirArg = "none") =>
        (v_ws.exists <=> v_req.keepFiles)

\* The finditer matches of the opener in a text, from index from on.
RECURSIVE OpenerMatches(_, _)
OpenerMatches(text, from) ==
    LET k == NextOpener(text, from) IN
    IF k = 0 THEN {} ELSE {k} \cup OpenerMatches(text, k + 2)

\* The qualifying openers of a text: matches with a marker in their preview.
QualifyingOpeners(text) == {k \in OpenerMatches(text, 1) : Qualifies(text, k)}

\* Openers (what = "{") or closers (what = "}") the left-to-right scan of a
\* block counts, two characters at a time.
RECURSIVE ScanCount(_, _, _)
ScanCount(block, i, what) ==
    IF i + 1 > Len(block) THEN 0
    ELSE IF block[i] = what /\ block[i + 1] = what
    THEN 1 + ScanCount(block, i + 2, what)
    ELSE IF block[i] = block[i + 1] /\ block[i] \in {"{", "}"}
    THEN ScanCount(block, i + 2, what)
    ELSE ScanCount(block, i + 1, what)

\* C11 as stated: whenever the text has a qualifying opener that is never
\* closed (here: its first one), the extractor returns the empty block.
C11_UnclosedOpenerGivesEmpty ==
    (/\ p_pc \in {"extracted", "parsed"}
     /\ \E k \in QualifyingOpeners(p_text) :
          /\ \A j \in QualifyingOpeners(p_text) : k <= j
          /\ ScanToClose(p_text, k, 0) = 0)
    => p_block = NoBlock

\* C11, amended: the returned block is empty with positions (-1, -1), or it is
\* the slice at the returned positions, starts with an opener and has as many
\* openers as closers under the scan; it is empty when no qualifying opener
\* is closed (in particular when no opener qualifies), and parse_wiki_page
\* then keeps the text as it is.
C11_BalancedBlock ==
    p_pc \in {"extracted", "parsed"} =>
        /\ p_block.block = <<>> => p_block = NoBlock
        /\ p_block.block # <<>> =>
              /\ p_block.block = SubSeq(p_text, p_block.start + 1, p_block.end)
              /\ IsOpenerAt(p_block.block, 1)
              /\ ScanCount(p_block.block, 1, "{") = ScanCount(p_block.block, 1, "}")
        /\ (\A k \in QualifyingOpeners(p_text) : ScanToClose(p_text, k, 0) = 0)
              => p_block = NoBlock
        /\ (p_pc = "parsed" /\ p_block = NoBlock) => p_page.remaining = p_text

\* A block with a nested template was extracted.
C11_Witness ==
    /\ p_pc = "extracted"
    /\ p_block.block # <<>>
    /\ ScanCount(p_block.block, 1, "{") = 2

\* C12: in every section of the extracted document no two content entries are
\* identical up to case and no content entry is a single character, for every
\* source URL.
C12_DedupedContent ==
    s_pc = "extracted" =>
        \A n \in 1..Len(s_sections) :
            LET content == s_sections[n].content IN
            /\ \A i, j \in 1..Len(content) :
                  i # j => LowerEntry(content[i]) # LowerEntry(content[j])
            /\ \A i \in 1..Len(content) : CompactLen(content[i]) > 1

\* C13: in every document produced by parse_wiki_page the sections, when there
\* are any, start with the section headed "intro", also when the first
\* content of the input comes only after a heading line.
C13_FirstSectionIntro ==
    (p_pc = "parsed" /\ p_page.sections # <<>>) =>
        p_page.sections[1].heading = <<"intro">>

\* C14: parsing an info block whose parameters are written inline on one
\* line, followed by body text, yields the two infobox fields and exactly one
\* section, headed intro, whose content is the body text.
C14_InlineInfobox ==
    (p_pc = "parsed" /\ p_text = InlineInfoboxMarkup) =>
        /\ p_page.infobox = {[key |-> <<"name_zh">>, value |-> <<"test">>],
                             [key |-> <<"summary">>, value |-> <<"one_line">>]}
        /\ p_page.sections = <<[heading |-> <<"intro">>, content |-> <<"body">>]>>

\* C15: on every transclusion graph, cycles and self-references included, the
\* expansion ends; it ends with the text unless the title is missing or a
\* fetch itself failed, and no title is fetched more than once.
C15_CyclesBounded ==
    /\ [](\A t \in Titles : e_fetches[t] <= 1)
    /\ [](e_pc = "done" => e_result.kind = "ok")
    /\ [](e_pc = "error" =>
            e_result.kind \in {"ValueError", "RuntimeError", "RequestError"})
    /\ [](e_result.kind \in {"RuntimeError", "RequestError"} =>
            \E t \in Titles : e_fetches[t] = 1 /\ e_level[t] = NoLevel)
    /\ <>(e_pc \in {"done", "error"})

\* Root and A reference each other and A references itself; with depth and
\* budget left the expansion has returned the text of both pages.
C15_Witness ==
    /\ e_pc = "done"
    /\ e_maxDepth = 2
    /\ e_maxPages = 3
    /\ e_links["Root"] = <<"A">>
    /\ e_links["A"] = <<"A", "Root">>
    /\ e_result = [kind |-> "ok", text |-> <<"Root", "A">>]

\* C16: with max_depth = D no title is fetched at a recursion level deeper
\* than D, every fetched title other than the root is referenced by a title
\* fetched one level above it, and with D <= 0 only the root is fetched.
C16_DepthBounded ==
    /\ \A t \in Titles :
          e_level[t] # NoLevel =>
              /\ e_level[t] <= (IF e_maxDepth > 0 THEN e_maxDepth ELSE 0)
              /\ e_level[t] = 0 <=> t = "Root"
              /\ e_level[t] > 0 =>
                    \E parent \in Titles :
                        /\ e_level[parent] = e_level[t] - 1
                        /\ \E n \in 1..Len(e_links[parent]) : e_links[parent][n] = t
    /\ e_maxDepth <= 0 => \A t \in Titles \ {"Root"} : e_fetches[t] = 0

\* With max_depth = 1 the page A is fetched at level 1 and its reference to B
\* is left alone although the page budget would allow it.
C16_Witness ==
    /\ e_pc = "done"
    /\ e_maxDepth = 1
    /\ e_maxPages = 3
    /\ e_links["Root"] = <<"A">>
    /\ e_level["A"] = 1
    /\ e_links["A"] = <<"B">>
    /\ e_fetches["B"] = 0

PngOnlyDescriptor == [png_path |-> "capture.png", pdf_path |-> ""]

C18_DescriptorHasArtifact ==
    /\ [](\A n \in 1..Len(v_hist.descriptors) :
            \/ v_hist.descriptors[n].png_path # ""
            \/ v_hist.descriptors[n].pdf_path # "")
    /\ [][(v_pc = "post" /\ ~v_saved.png /\ ~v_saved.pdf)
          => /\ v_hist'.descriptors = v_hist.descriptors
             /\ v_hist'.captures = Append(v_hist.captures, "failed")
             /\ v_pc' \in {"raised", "setup", "done"}]_vars

\* Both passes of a moegirl capture returned a result and saved nothing.
C18_Witness ==
    /\ v_pc = "raised"
    /\ v_req.entry = "crawl_moegirl_page_visual_markitdown"
    /\ ~v_req.capturePdf
    /\ v_pass = "both_body"
    /\ v_passLog.state = "ok"
    /\ ~v_saved.png /\ ~v_saved.pdf
    /\ v_hist.captures = <<"failed">>
    /\ v_hist.descriptors = <<>>

\* C19: a visual request of _run makes exactly the visual capture for the
\* resolved site (the detected one under --mode auto) and never the API fetch
\* or the HTML text crawl, whether the capture gives text, nothing or an error.
C19_VisualBypassesChain ==
    (c_args.entry = "_run" /\ c_args.visual) =>
        /\ \A n \in 1..Len(c_calls) :
              /\ c_calls[n] = <<"visual", ResolvedMode(c_args)>>
              /\ c_args.mode = "auto" => c_calls[n][2] = DetectMode(c_args.host)
        /\ Len(c_calls) <= 1
        /\ c_pc \in {"output", "done", "raised"} => Len(c_calls) = 1
        /\ c_out.mode \in {"none", "visual"}

\* The capture of a moegirl page under --mode auto failed; nothing else was
\* tried.
C19_Witness ==
    /\ c_pc = "raised"
    /\ c_args = [entry |-> "_run", host |-> "mzh.moegirl.org.cn", mode |-> "auto",
                 visual |-> TRUE]
    /\ c_env.visual = "error"
    /\ c_calls = <<<<"visual", "moegirl">>>>

\* C20: for a host _detect_mode does not recognize a non-visual request of
\* _run makes no call but the generic HTML crawl, and _run_api_crawl called
\* for a site other than biligame and moegirl raises without fetching.
C20_UnrecognizedHostHtmlOnly ==
    /\ (/\ c_args.entry = "_run"
        /\ ~c_args.visual
        /\ DetectMode(c_args.host) = "generic")
       => \A n \in 1..Len(c_calls) : c_calls[n] = <<"html", "generic">>
    /\ (/\ c_args.entry = "_run_api_crawl"
        /\ c_args.mode \notin {"biligame", "moegirl"})
       => /\ c_calls = <<>>
          /\ c_pc \in {"start", "api", "raised"}
          /\ c_pc = "raised" => c_out.text = "Unsupported API site"

\* C21: a structured text crawl (crawl_biligame_page, crawl_moegirl_page)
\* whose HTML attempts leave an empty or invalid DOM does not end before a
\* render-fallback attempt has been made.
C21_RenderFallbackAttempted ==
    (/\ k_pc = "done"
     /\ EntryParams(k_entry).structured
     /\ ~HtmlReady(k_html))
    => \E n \in 1..Len(k_attempts) : k_attempts[n] = "render"

\* C22: a text crawl with a scoped css_selector starts with the scoped
\* attempt and makes at most one selector-less attempt after it; when the
\* crawl ends without content, so that the scoped attempt yielded nothing,
\* the selector-less attempt has been made.
C22_SelectorlessRetry ==
    (k_pc = "done" /\ EntryParams(k_entry).selector) =>
        /\ k_attempts \in {<<"scoped">>, <<"scoped", "body">>}
        /\ k_content = "none" => k_attempts = <<"scoped", "body">>

\* C23: google_search and google_search_urls called while a credential is
\* missing end with EnvironmentError before the proxy setup, the construction
\* of the service and the request, and leave the shared config as it was.
C23_MissingCredentialsFailFast ==
    (/\ g_call.fn \in {"google_search", "google_search_urls"}
     /\ (g_cfg0["google_api_key"] = "" \/ g_cfg0["google_cse_id"] = ""))
    => /\ g_trace = <<>>
       /\ g_cfg = g_cfg0
       /\ g_pc \in {"start", "raised"}
       /\ g_pc = "raised" => g_out = [kind |-> "raised", value |-> "EnvironmentError"]

\* The key is configured, the engine id is not, and a proxy is set that
\* _build_http would reject.
C23_Witness ==
    /\ g_pc = "raised"
    /\ g_call.fn = "google_search_urls"
    /\ g_cfg0["google_api_key"] = "K0"
    /\ g_cfg0["google_cse_id"] = ""
    /\ g_cfg0["http_proxy"] = "socks5://h:1"
    /\ g_out = [kind |-> "raised", value |-> "EnvironmentError"]

\* main with --google-api-key K and --google-cse-id C: the number of times
\* _run was started.
RunStarts == Cardinality({n \in 1..Len(g_trace) : g_trace[n] = "_run"})

\* C29: when main is run with --google-api-key K and --google-cse-id C, the
\* config holds K and C before _run is started, _run is started exactly once
\* and no other field changes; an override key that is not a field of the
\* config is ignored.
C29_OverridesApplied ==
    /\ (g_call.fn = "main" /\ Truthy(g_call.apiKey) /\ Truthy(g_call.cseId)) =>
          /\ g_pc \in {"run", "done", "raised"} =>
                /\ g_cfg["google_api_key"] = g_call.apiKey
                /\ g_cfg["google_cse_id"] = g_call.cseId
          /\ RunStarts = (IF g_pc \in {"done", "raised"} THEN 1 ELSE 0)
          /\ \A name \in DOMAIN g_cfg \ {"google_api_key", "google_cse_id"} :
                g_cfg[name] = g_cfg0[name]
    /\ (g_call.fn = "apply_overrides" /\ g_call.key \notin ConfigFields) =>
          g_cfg = g_cfg0

\* C25: artifact names are a function of the url alone, and two urls that name
\* different pages never get the same artifact path in one output directory.
C25_DistinctPagesDistinctArtifacts ==
    \A r1, r2 \in Requests :
        (/\ q_pc[r1] \notin {"start", "off"}
         /\ q_pc[r2] \notin {"start", "off"}
         /\ q_dir[r1] = q_dir[r2]
         /\ PageOf(q_req[r1].url) # PageOf(q_req[r2].url))
        => \A ext \in {"png", "pdf"} :
              ArtifactPath(q_dir[r1], q_req[r1].url, ext)
                 # ArtifactPath(q_dir[r2], q_req[r2].url, ext)

\* C27: a file one request writes is never written, read or removed by the
\* other request.
C27_NoSharedFiles ==
    \A a, b \in q_touch :
        (a.req # b.req /\ a.path = b.path) => (a.op # "write" /\ b.op # "write")

\* C26: the artifact a visual-markitdown request converts was written by a
\* capture of that request, never a file an earlier request left in the
\* output directory.
C26_ConvertsOwnArtifact ==
    (v_pc = "convert" /\ v_capture.target # "none")
    => v_files[v_capture.target] = "fresh"

\* C24: for a positive overall timeout T every attempt of run_capture waits
\* under a timeout no larger than T, and a later attempt under one no larger
\* than the first attempt's.
C24_AttemptTimeoutsNested ==
    t_timeout > 0 =>
        \A n \in 1..Len(t_used) :
            /\ t_used[n] <= t_timeout
            /\ t_used[n] <= t_used[1]

\* C30: the root title counts against max_pages like every other title.  With
\* max_pages = N >= 1 the root is fetched and at most N - 1 transcluded titles
\* are; with no budget not even the root is fetched; and for a root that
\* transcludes A and B, max_depth = 1 and max_pages = 2, the visited set ends
\* as {root, A} and B is never fetched.
C30_RootCountsAgainstBudget ==
    /\ e_visited # {} => "Root" \in e_visited
    /\ e_maxPages <= 0 => \A t \in Titles : e_fetches[t] = 0
    /\ e_maxPages >= 1 =>
          /\ (e_pc \in {"done", "error"} /\ e_result.kind # "ValueError")
                => e_fetches["Root"] = 1
          /\ Cardinality({t \in Titles \ {"Root"} : e_fetches[t] > 0}) <= e_maxPages - 1
    /\ (e_links["Root"] = <<"A", "B">> /\ e_maxDepth = 1 /\ e_maxPages = 2) =>
          /\ e_fetches["B"] = 0
          /\ e_pc = "done" => e_visited = {"Root", "A"}

\* The root transcludes A and B, max_depth = 1 and max_pages = 2: the expansion
\* returned the text of the root and of A.
C30_Witness ==
    /\ e_pc = "done"
    /\ e_maxDepth = 1
    /\ e_maxPages = 2
    /\ e_links["Root"] = <<"A", "B">>
    /\ e_visited = {"Root", "A"}
    /\ e_fetches = [t \in Titles |-> IF t \in {"Root", "A"} THEN 1 ELSE 0]
    /\ e_result = [kind |-> "ok", text |-> <<"Root", "A">>]

C31_ValuesExcludeCloser ==
    p_pc = "parsed" =>
        /\ \A d \in p_page.infobox :
              \A n \in 1..Len(d.value) : ~IsCloserAt(d.value, n)
        /\ p_text = MultiLineInfoboxMarkup =>
              p_page.infobox = {[key |-> <<"name_zh">>, value |-> <<"test">>],
                                [key |-> <<"summary">>, value |-> <<"one_line">>]}

\* C32: a non-empty block returned by _extract_infobox_block holds an info
\* block marker itself; a short template that only precedes the info block
\* is never returned in its place.
C32_BlockHoldsMarker ==
    (p_pc \in {"extracted", "parsed"} /\ p_block.block # <<>>)
    => Has(p_block.block, Marker)

\* The titles with a chain of at most depth references from the root, over
\* the references of the pages fetched so far.
RECURSIVE WithinDepth(_)
WithinDepth(depth) ==
    IF depth <= 0 THEN {"Root"}
    ELSE LET near == WithinDepth(depth - 1)
         IN  near \cup {t \in Titles :
                          \E parent \in near :
                              \E n \in 1..Len(e_links[parent]) : e_links[parent][n] = t}

\* C33: when an expansion ends with page budget left, every title whose
\* shortest chain of references from the root is at most max_depth long has
\* been fetched and its text is part of the expanded text, whatever the order
\* in which the titles were met.
C33_ShortestChainExpanded ==
    (e_pc = "done" /\ ~BudgetExhausted(e_visited, e_maxPages)) =>
        \A t \in WithinDepth(e_maxDepth) :
            /\ e_fetches[t] = 1
            /\ \E n \in 1..Len(e_result.text) : e_result.text[n] = t

\* C34: a fetch that fails during the expansion, the fetch of a transcluded
\* title with empty or missing wikitext included, ends the whole expansion
\* with that error; no text, of the root or of children fetched before, is
\* returned.
C34_FailureReturnsNoText ==
    /\ \A t \in Titles :
          (e_fetches[t] >= 1 /\ e_level[t] = NoLevel) =>
              /\ e_pc = "error"
              /\ e_result.kind \in {"RuntimeError", "RequestError"}
    /\ e_pc = "error" => (e_result.text = EmptyText /\ e_stack = <<>>)
    /\ e_result.text # EmptyText => (e_pc = "done" /\ e_result.kind = "ok")

\* The root and its first child were fetched, the second child has no
\* wikitext: the expansion ended with RuntimeError and without text.
C34_Witness ==
    /\ e_pc = "error"
    /\ e_result = [kind |-> "RuntimeError", text |-> EmptyText]
    /\ e_links["Root"] = <<"A", "B">>
    /\ e_level["A"] = 1
    /\ e_fetches["B"] = 1
    /\ e_level["B"] = NoLevel

\* C35: with a preload url the preload navigation has ended (returned, failed
\* or timed out) before the first navigation to the target is issued in the
\* same engine; it uses the session id and the engine of the target
\* navigations; and its failure or timeout does not end the capture: the
\* passes start.
C35_PreloadSameSession ==
    /\ [](\A nav \in v_hist.navs :
            (nav.kind = "target" /\ CapParams(v_req.entry).preload) =>
                \E pre \in v_hist.navs :
                    /\ pre.kind = "preload"
                    /\ pre.engine = nav.engine
                    /\ pre.session = nav.session)
    /\ [](v_pc = "preload" =>
            \A nav \in v_hist.navs :
                nav.kind = "target" => nav.engine # CaptureEngine(v_hist))
    /\ [][(v_pc = "preload" /\ v_timedOut' = v_timedOut) => v_pc' = "attempt"]_vars

\* The preload navigation timed out, the passes went on in the same engine and
\* session, and the request returned text.
C35_Witness ==
    /\ v_pc = "done"
    /\ v_out = [kind |-> "returned", value |-> "text"]
    /\ v_hist.navs = {[kind |-> "preload", engine |-> 1, session |-> "visual-slug",
                       outcome |-> "TimeoutError"],
                      [kind |-> "target", engine |-> 1, session |-> "visual-slug",
                       outcome |-> "ended"]}

\* The index of the first occurrence of sym in seq, Len(seq) + 1 without one.
RECURSIVE FirstIndex(_, _)
FirstIndex(seq, sym) ==
    IF seq = <<>> \/ Head(seq) = sym THEN 1 ELSE 1 + FirstIndex(Tail(seq), sym)

\* C36: the transclusions of a parsed page hold each {{:Title}} of the text
\* outside the info block exactly once, in the order of first occurrence, and
\* no title that occurs only inside the info block.  In the pages of
\* TransclusionTexts the titles A and B are transcluded only outside the info
\* block and C only inside it.
C36_TransclusionsOutsideBlock ==
    p_pc = "parsed" =>
        LET listed == p_page.transclusions IN
        /\ NoDup(listed)
        /\ \A n \in 1..Len(listed) : listed[n] \in {<<"A">>, <<"B">>}
        /\ \A t \in {"A", "B"} : Has(p_text, t) <=> Has(listed, <<t>>)
        /\ \A m, n \in 1..Len(listed) :
              m < n => FirstIndex(p_text, listed[m][1]) < FirstIndex(p_text, listed[n][1])

\* C38: the intro of a parsed page is the content of the section headed
\* "intro", the text before the first heading, and is empty when the page has
\* no such section; it is never the content of a section with another heading.
C38_IntroIsIntroSection ==
    p_pc = "parsed" =>
        IF \E n \in 1..Len(p_page.sections) : p_page.sections[n].heading = <<"intro">>
        THEN \E n \in 1..Len(p_page.sections) :
                 /\ p_page.sections[n].heading = <<"intro">>
                 /\ p_page.intro = p_page.sections[n].content
        ELSE p_page.intro = <<>>

\* The bracket depth of the lines s..k: the "[" minus the "]" in them.
RECURSIVE RunningDepth(_, _, _)
RunningDepth(lines, s, k) ==
    IF k < s THEN 0 ELSE RunningDepth(lines, s, k - 1) + BracketBalance(lines[k])

\* Line n opens a range: it holds a marker and lies in no range opened before.
\* Line n lies in a range opened before: behind an opening line s, with the
\* depth of s..k above 0 for every line k from s up to the line before n.
RECURSIVE OpensRange(_, _)
RECURSIVE InsideRange(_, _)
OpensRange(lines, n) == HasJsonMarker(lines[n]) /\ ~InsideRange(lines, n)
InsideRange(lines, n) ==
    \E s \in 1..(n - 1) :
        /\ OpensRange(lines, s)
        /\ \A k \in s..(n - 1) : RunningDepth(lines, s, k) > 0

\* The first n lines without the lines of the ranges, in their order.
RECURSIVE OutsideRanges(_, _)
OutsideRanges(lines, n) ==
    IF n = 0 THEN <<>>
    ELSE OutsideRanges(lines, n - 1)
         \o (IF OpensRange(lines, n) \/ InsideRange(lines, n) THEN <<>> ELSE <<lines[n]>>)

\* The filter was applied to a page of the site family.
Stripped == j_pc \in {"once", "twice"} /\ j_url = "https://wiki.biligame.com/umamusume/X"

\* C37 as amended: _strip_json_blocks removes the ranges that open at a line
\* with a marker and end at the first line where the running "[" minus "]"
\* depth is <= 0, the marker line itself when it opens no bracket; its result
\* is the lines outside those ranges joined in their order; no kept line holds
\* a marker; and a second application returns the result of the first, less
\* one final line break when the first result ends in one.
C37_StripsMarkerRanges ==
    /\ Stripped =>
          /\ j_once = ContentJoin(OutsideRanges(ContentSplit(j_text),
                                                Len(ContentSplit(j_text))))
          /\ \A n \in 1..Len(ContentSplit(j_once)) : ~HasJsonMarker(ContentSplit(j_once)[n])
    /\ (Stripped /\ j_pc = "twice") =>
          \/ j_twice = j_once
          \/ j_once = j_twice \o <<Newline>>

\* A prose line, an array opened by a marker line and closed by the next
\* line, and an empty line: the range is removed, and the second application
\* takes the final line break of the first result.
C37_Witness ==
    /\ j_pc = "twice"
    /\ j_url = "https://wiki.biligame.com/umamusume/X"
    /\ j_text = <<"a", Newline, "json[", Newline, "]", Newline, Newline>>
    /\ j_once = <<"a", Newline>>
    /\ j_twice = <<"a">>

\* C37 as stated: the kept lines are the lines outside the ranges, no kept
\* line holds a marker, and applying the filter twice gives the same result
\* as applying it once.
C37_StripIdempotent ==
    /\ C37_StripsMarkerRanges
    /\ (Stripped /\ j_pc = "twice") => j_twice = j_once

\* C39: the caller's directory (given as output_dir, as a workspace path or
\* as the workspace of the caller's UmamusumeCrawler) is never removed, by a
\* crawl operation or by cleanup(); the caller's cleanup() removes only the
\* work directory of a crawler that made it as a temporary directory with
\* keep_files false; and a crawl operation removes no directory but the
\* temporary one its own crawler made with keep_files false.
C39_CallerDirectoryKept ==
    [][LET cleanup == w_pc # "cleaned" /\ w_pc' = "cleaned" IN
       /\ CallerDir \in w_fs => CallerDir \in w_fs'
       /\ \A d \in w_fs \ w_fs' :
             IF cleanup
             THEN d = w_caller.work_dir /\ w_caller.is_temp /\ ~w_caller.keep_files
             ELSE d = w_temp.work_dir /\ w_temp.is_temp /\ ~w_temp.keep_files
       /\ cleanup => w_fs' \subseteq w_fs]_vars

\* The operation ran on the workspace of the caller's crawler, whose work
\* directory is the caller's own, and the caller's cleanup() has run: the
\* directory is still there.
C39_Witness ==
    /\ w_pc = "cleaned"
    /\ w_req.workspace = "crawler"
    /\ w_req.output_dir = "None"
    /\ w_caller = [work_dir |-> CallerDir, is_temp |-> FALSE, keep_files |-> FALSE,
                   temp_dir |-> FALSE]
    /\ w_fs = {CallerDir}

====
